---- MODULE Spec2Model ----
(***************************************************************************)
(* Force-directed knowledge-graph viewer (client/src/components/graph):    *)
(* the model builder (transformGraphData), the BFS helpers, the selection  *)
(* and drag handlers, the path highlighter and the simulation tick, as a   *)
(* state machine over the node and link objects the handlers share.        *)
(*                                                                         *)
(* Numbers: a coordinate is an integer; the JavaScript values undefined    *)
(* and null of an optional coordinate are the two integers Undefined and   *)
(* Null, outside every coordinate the model produces.  A relevance score   *)
(* is kept in hundredths (the code divides seed % 100 by 100).             *)
(***************************************************************************)
EXTENDS Integers, Sequences, FiniteSets, TLC

VARIABLES
  nodes,                  \* GraphNode[] (React state of ForceDirectedGraph)
  links,                  \* GraphLink[] (React state of ForceDirectedGraph)
  graph,                  \* index in RawGraphs of the raw graph last loaded, 0 before
  simReady,               \* the init effect of GraphRenderer has built the simulation
  simulationRef,          \* simulationRef.current: "null", or its timer: "running",
                          \* "stopped" by sim.stop(), "ended" when alpha ran out
  alpha,                  \* alpha of that simulation, in hundredths
  alphaTarget,            \* its alphaTarget, in hundredths
  neighborhoodSelection,  \* ref {sourceNodeId, currentDepth}
  exactLayerSelection,    \* ref {sourceNodeId, currentLayer}
  isSpacePressed,         \* key refs
  isNPressed,
  isMPressed,
  dragStartPositions,     \* Map<string, {x, y}> of setupDragBehavior
  drag,                   \* the pointer gesture d3-drag is in
  frp,                    \* activation of findRandomPath (stepwise search)
  call,                   \* the last call of a helper: its name, arguments, result
  settings,               \* settings.colorScheme, settings.communityDetection
  edgeFilterRange,        \* the edgeFilterRange prop, in hundredths
  prevEdgeFilterRef,      \* prevEdgeFilterRef.current of GraphRenderer
  linksRef,               \* linksRef.current: stroke and stroke-opacity of each line
  lastOp,                 \* history: the last completed interaction
  dragOrigin,             \* history: positions of the selected nodes when the drag began
  edgeRelevanceFilter     \* EdgeRelevanceFilter: minFrac, maxFrac (hundredths), isDragging

vars == <<nodes, links, graph, simReady, simulationRef, alpha, alphaTarget,
          neighborhoodSelection,
          exactLayerSelection, isSpacePressed, isNPressed, isMPressed,
          dragStartPositions, drag, frp, call, settings, edgeFilterRange,
          prevEdgeFilterRef, linksRef, lastOp, dragOrigin, edgeRelevanceFilter>>

-----------------------------------------------------------------------------
(* Bounds of the model *)

\* neighbourhood depth / exact layer reached by repeated clicks
MaxDepth == 2

\* largest maxDepth two breadth-first searches are compared for
MaxLayer == 4
\* longest edge-type sequence handed to highlightPath
MaxPathLen == 2
\* recursive retries of findRandomPath that the stepwise search follows
MaxRestarts == 3

(* JavaScript values *)
Undefined == -98
Null == -99
NullId == "null"
UndefinedText == "undefined"
DefaultColor == "#6366f1"

\* the positions the layout can give a free node, and the pointer positions
Points == { <<0, 1>>, <<1, 0>> }

IsNumber(v) == v # Undefined /\ v # Null

\* JavaScript  v || 0  for an optional coordinate
OrZero(v) == IF IsNumber(v) THEN v ELSE 0

-----------------------------------------------------------------------------
(* Raw graphs handed to the component (the `graph` prop) *)

RawEdge(s, t, ty) == [source |-> s, target |-> t, type |-> ty]

\* the leaves of the star graph and the nodes of the large graph
StarLeaves == 20

ManyNodes == 80

LeafIds == { "n" \o ToString(i) : i \in 1..StarLeaves }

ManyIds == { "m" \o ToString(i) : i \in 1..ManyNodes }

RawGraphs ==
  << \* the path graph a - b - cc
     [nodes |-> << [id |-> "a", label |-> "A"], [id |-> "b", label |-> "B"],
                   [id |-> "cc", label |-> "C"] >>,
      edges |-> << RawEdge("a", "b", "r"), RawEdge("b", "cc", "s") >>],
     \* the same nodes, no edges
     [nodes |-> << [id |-> "a", label |-> "A"], [id |-> "b", label |-> "B"],
                   [id |-> "cc", label |-> "C"] >>,
      edges |-> << >>],
     \* two nodes, a dangling edge between two parallel edges
     [nodes |-> << [id |-> "b", label |-> "B"], [id |-> "a", label |-> "A"] >>,
      edges |-> << RawEdge("a", "b", "r"), RawEdge("a", "zz", "s"),
                   RawEdge("b", "a", "r") >>],
     \* one edge and an isolated node
     [nodes |-> << [id |-> "a", label |-> "A"], [id |-> "b", label |-> "B"],
                   [id |-> "cc", label |-> "C"] >>,
      edges |-> << RawEdge("a", "b", "r") >>],
     \* no nodes, no edges
     [nodes |-> << >>, edges |-> << >>],
     \* five nodes: cc between b and Dd, e on its own
     [nodes |-> << [id |-> "a", label |-> "A"], [id |-> "b", label |-> "B"],
                   [id |-> "cc", label |-> "C"], [id |-> "Dd", label |-> "D"],
                   [id |-> "e", label |-> "E"] >>,
      edges |-> << RawEdge("cc", "b", "r"), RawEdge("Dd", "cc", "s") >>],
     \* the path graph a - b - cc - Dd
     [nodes |-> << [id |-> "a", label |-> "A"], [id |-> "b", label |-> "B"],
                   [id |-> "cc", label |-> "C"], [id |-> "Dd", label |-> "D"] >>,
      edges |-> << RawEdge("a", "b", "r"), RawEdge("b", "cc", "s"),
                   RawEdge("cc", "Dd", "r") >>],
     \* a single node
     [nodes |-> << [id |-> "a", label |-> "A"] >>, edges |-> << >>],
     \* a star: the centre a joined to the leaves n1, n2, ...
     [nodes |-> [i \in 1..(StarLeaves + 1) |->
                   IF i = 1 THEN [id |-> "a", label |-> "A"]
                   ELSE [id |-> "n" \o ToString(i - 1), label |-> "N"]],
      edges |-> [k \in 1..StarLeaves |-> RawEdge("a", "n" \o ToString(k), "r")]],
     \* many nodes m1, m2, ... and three edges
     [nodes |-> [i \in 1..ManyNodes |-> [id |-> "m" \o ToString(i), label |-> "M"]],
      edges |-> << RawEdge("m2", "m41", "r"), RawEdge("m3", "m21", "r"),
                   RawEdge("m3", "m61", "s") >>] >>

\* the graphs the viewer is loaded with
GraphIds == 1..5

\* the graphs community detection is called on
CommunityGraphs == { 1, 3, 6, 7, 8, 9, 10 }

NodeIds(ns) == { ns[i].id : i \in DOMAIN ns }

\* Array.prototype.find(n => n.id === id): index of the first match, 0 if none
FindIndex(ns, id) ==
  IF \E i \in DOMAIN ns : ns[i].id = id
  THEN CHOOSE i \in DOMAIN ns : ns[i].id = id /\ \A j \in 1..(i-1) : ns[j].id # id
  ELSE 0

-----------------------------------------------------------------------------
(* graphUtils.ts: transformGraphData *)

\* oldNodeMap.get(id): the last old node with that id (Map.set overwrites)
OldNodeIndex(oldNodes, id) ==
  IF \E i \in DOMAIN oldNodes : oldNodes[i].id = id
  THEN CHOOSE i \in DOMAIN oldNodes :
         oldNodes[i].id = id /\ \A j \in (i+1)..Len(oldNodes) : oldNodes[j].id # id
  ELSE 0

\* a builder that carries nothing over from the old node (variant)
NewNodeFresh(raw, oldNodes) ==
  [id |-> raw.id, label |-> raw.label,
   x |-> Undefined, y |-> Undefined,
   isSelected |-> FALSE, color |-> DefaultColor,
   isHighlighted |-> FALSE, tooltipText |-> UndefinedText,
   fx |-> Undefined, fy |-> Undefined]

\* a builder that gives a node without an old node the state of the last old
\* node (variant)
NewNodeInherit(raw, oldNodes) ==
  LET k == IF OldNodeIndex(oldNodes, raw.id) = 0
           THEN Len(oldNodes) ELSE OldNodeIndex(oldNodes, raw.id) IN
  IF k = 0
  THEN [id |-> raw.id, label |-> raw.label,
        x |-> Undefined, y |-> Undefined,
        isSelected |-> FALSE, color |-> DefaultColor,
        isHighlighted |-> FALSE, tooltipText |-> UndefinedText,
        fx |-> Undefined, fy |-> Undefined]
  ELSE [id |-> raw.id, label |-> raw.label,
        x |-> oldNodes[k].x, y |-> oldNodes[k].y,
        isSelected |-> oldNodes[k].isSelected, color |-> oldNodes[k].color,
        isHighlighted |-> oldNodes[k].isHighlighted,
        tooltipText |-> oldNodes[k].tooltipText,
        fx |-> oldNodes[k].fx, fy |-> oldNodes[k].fy]

NewNode(raw, oldNodes) ==
  LET k == OldNodeIndex(oldNodes, raw.id) IN
  IF k = 0
  THEN [id |-> raw.id, label |-> raw.label,
        x |-> Undefined, y |-> Undefined,
        isSelected |-> FALSE, color |-> DefaultColor,
        isHighlighted |-> FALSE, tooltipText |-> UndefinedText,
        fx |-> Undefined, fy |-> Undefined]
  ELSE [id |-> raw.id, label |-> raw.label,
        x |-> oldNodes[k].x, y |-> oldNodes[k].y,
        isSelected |-> oldNodes[k].isSelected, color |-> oldNodes[k].color,
        isHighlighted |-> oldNodes[k].isHighlighted,
        tooltipText |-> oldNodes[k].tooltipText,
        fx |-> oldNodes[k].fx, fy |-> oldNodes[k].fy]

TransformNodes(g, oldNodes) ==
  [i \in 1..Len(g.nodes) |-> NewNode(g.nodes[i], oldNodes)]

\* vx: oldNode?.vx || 0 (and vy alike), oldVelocity being the vx of the old
\* nodes: undefined before the simulation has them, a number after
NewNodeVelocity(raw, oldNodes, oldVelocity) ==
  IF OldNodeIndex(oldNodes, raw.id) = 0 THEN OrZero(Undefined)
  ELSE OrZero(oldVelocity)

\* the map callback's `return null`
NullLink ==
  [source |-> NullId, target |-> NullId, type |-> "", edgeIndex |-> -1,
   relevanceScore |-> -1, isHighlighted |-> FALSE, highlightLabel |-> ""]

\* a score that varies with the state of the previous nodes, as a score drawn
\* anew on every build would (variant)
RelevanceScoreOfState(edge, edgeIndex, oldNodes) ==
  (edgeIndex + Cardinality({ i \in DOMAIN oldNodes : oldNodes[i].isSelected })) % 100

\* seed = edgeIndex + (source.length + target.length); (seed % 100) / 100
RelevanceScore(edge, edgeIndex, oldNodes) ==
  (edgeIndex + (Len(edge.source) + Len(edge.target))) % 100

\* a builder that only looks up the source of an edge (variant)
NewLinkSourceOnly(edge, edgeIndex, ids, oldNodes) ==
  IF edge.source \notin ids
  THEN NullLink
  ELSE [source |-> edge.source, target |-> edge.target, type |-> edge.type,
        edgeIndex |-> edgeIndex,
        relevanceScore |-> (edgeIndex + (Len(edge.source) + Len(edge.target))) % 100,
        isHighlighted |-> FALSE, highlightLabel |-> ""]

NewLink(edge, edgeIndex, ids, oldNodes) ==
  IF edge.source \notin ids \/ edge.target \notin ids
  THEN NullLink
  ELSE [source |-> edge.source, target |-> edge.target, type |-> edge.type,
        edgeIndex |-> edgeIndex,
        relevanceScore |-> RelevanceScore(edge, edgeIndex, oldNodes),
        isHighlighted |-> FALSE, highlightLabel |-> ""]

\* graph.edges.map(...).filter(Boolean)
TransformLinks(g, oldNodes) ==
  LET ids == { g.nodes[i].id : i \in 1..Len(g.nodes) }
      mapped == [k \in 1..Len(g.edges) |-> NewLink(g.edges[k], k - 1, ids, oldNodes)]
  IN SelectSeq(mapped, LAMBDA l : l # NullLink)

-----------------------------------------------------------------------------
(* graphUtils.ts: buildAdjacencyList, findNodesAtDepths *)

\* Map<string, Set<string>>: a key per node, both directions of every link;
\* adjList.get(id)?.add skips an id that is no key
buildAdjacencyList(ns, ls) ==
  [id \in NodeIds(ns) |->
     { ls[k].target : k \in { j \in DOMAIN ls : ls[j].source = id } }
     \cup { ls[k].source : k \in { j \in DOMAIN ls : ls[j].target = id } }]

\* adjList.get(id) || new Set()
Neighbors(adjList, id) == IF id \in DOMAIN adjList THEN adjList[id] ELSE {}

\* the elements of a set in the order a Set is iterated (some fixed order)
RECURSIVE SetToSeq(_)
SetToSeq(S) ==
  IF S = {} THEN << >>
  ELSE LET e == CHOOSE e \in S : TRUE IN << e >> \o SetToSeq(S \ {e})

\* the while loop without the visited check: a neighbour is recorded at every
\* depth it is seen at (variant)
RECURSIVE BFSLoopRevisit(_, _, _, _, _)
BFSLoopRevisit(queue, visited, nodesAtDepth, maxDepth, adjList) ==
  IF queue = << >> THEN nodesAtDepth
  ELSE
    LET head == Head(queue)
        rest == Tail(queue)
    IN IF head.distance >= maxDepth
       THEN BFSLoopRevisit(rest, visited, nodesAtDepth, maxDepth, adjList)
       ELSE
         LET fresh == Neighbors(adjList, head.nodeId)
             pushed == [i \in 1..Cardinality(fresh) |->
                          [nodeId |-> SetToSeq(fresh)[i],
                           distance |-> head.distance + 1]]
         IN BFSLoopRevisit(rest \o pushed, visited \cup fresh,
                           [nodesAtDepth EXCEPT ![head.distance + 1] = @ \cup fresh],
                           maxDepth, adjList)

\* the while loop of findNodesAtDepths: queue of {nodeId, distance}
RECURSIVE BFSLoop(_, _, _, _, _)
BFSLoop(queue, visited, nodesAtDepth, maxDepth, adjList) ==
  IF queue = << >> THEN nodesAtDepth
  ELSE
    LET head == Head(queue)
        rest == Tail(queue)
    IN IF head.distance >= maxDepth
       THEN BFSLoop(rest, visited, nodesAtDepth, maxDepth, adjList)
       ELSE
         LET fresh == Neighbors(adjList, head.nodeId) \ visited
             pushed == [i \in 1..Cardinality(fresh) |->
                          [nodeId |-> SetToSeq(fresh)[i],
                           distance |-> head.distance + 1]]
         IN BFSLoop(rest \o pushed, visited \cup fresh,
                    [nodesAtDepth EXCEPT ![head.distance + 1] = @ \cup fresh],
                    maxDepth, adjList)

\* Map<number, Set<string>> with keys 0..maxDepth
findNodesAtDepths(startNodeId, maxDepth, adjList) ==
  BFSLoop(<< [nodeId |-> startNodeId, distance |-> 0] >>,
          {startNodeId},
          [d \in 0..maxDepth |-> IF d = 0 THEN {startNodeId} ELSE {}],
          maxDepth, adjList)

\* nodesByDepth.get(i) || new Set()
DepthSet(nodesByDepth, i) ==
  IF i \in DOMAIN nodesByDepth THEN nodesByDepth[i] ELSE {}

-----------------------------------------------------------------------------
(* Node updates shared by the handlers *)

IsPinned(n) == IsNumber(n.fx) /\ IsNumber(n.fy)

SelectedIds(ns) == { ns[i].id : i \in { j \in DOMAIN ns : ns[j].isSelected } }

\* n.isSelected = true; fix the position only when fx or fy is undefined
\* and the node has coordinates
SelectAndFix(n) ==
  IF n.fx = Undefined \/ n.fy = Undefined
  THEN IF n.x # Undefined /\ n.y # Undefined
       THEN [n EXCEPT !.isSelected = TRUE, !.fx = n.x, !.fy = n.y]
       ELSE [n EXCEPT !.isSelected = TRUE]
  ELSE [n EXCEPT !.isSelected = TRUE]

\* a deselect that leaves the node pinned (variant)
DeselectKeepPin(n) == [n EXCEPT !.isSelected = FALSE]

\* n.isSelected = false; n.fx = null; n.fy = null
Deselect(n) == [n EXCEPT !.isSelected = FALSE, !.fx = Null, !.fy = Null]

-----------------------------------------------------------------------------
(* GraphInteractions.ts: selectNodeNeighborhood, selectExactLayer *)

\* a neighbourhood that stops one hop short of depth (variant)
selectNodeNeighborhoodShort(sourceNodeId, depth, ns, ls) ==
  IF Len(ns) = 0 \/ Len(ls) = 0 THEN ns
  ELSE IF FindIndex(ns, sourceNodeId) = 0 THEN ns
  ELSE
    LET src == FindIndex(ns, sourceNodeId)
        ns1 == [ns EXCEPT ![src] = SelectAndFix(ns[src])]
        nodesByDepth == findNodesAtDepths(sourceNodeId, depth,
                                          buildAdjacencyList(ns1, ls))
        reached == UNION { DepthSet(nodesByDepth, i) : i \in 1..(depth - 1) }
    IN [j \in DOMAIN ns1 |->
          IF ns1[j].id \in reached THEN SelectAndFix(ns1[j]) ELSE ns1[j]]

selectNodeNeighborhood(sourceNodeId, depth, ns, ls) ==
  IF Len(ns) = 0 \/ Len(ls) = 0 THEN ns
  ELSE IF FindIndex(ns, sourceNodeId) = 0 THEN ns
  ELSE
    LET src == FindIndex(ns, sourceNodeId)
        ns1 == [ns EXCEPT ![src] = SelectAndFix(ns[src])]
    IN IF depth = 0 THEN ns1
       ELSE
         LET adjacencyList == buildAdjacencyList(ns1, ls)
             nodesByDepth == findNodesAtDepths(sourceNodeId, depth, adjacencyList)
             reached == UNION { DepthSet(nodesByDepth, i) : i \in 1..depth }
         IN [j \in DOMAIN ns1 |->
               IF ns1[j].id \in reached THEN SelectAndFix(ns1[j]) ELSE ns1[j]]

selectExactLayer(sourceNodeId, layerDepth, ns, ls) ==
  IF Len(ns) = 0 \/ Len(ls) = 0 \/ layerDepth < 1 THEN ns
  ELSE IF FindIndex(ns, sourceNodeId) = 0 THEN ns
  ELSE
    LET src == FindIndex(ns, sourceNodeId)
        ns1 == [j \in DOMAIN ns |->
                  IF ns[j].id = sourceNodeId THEN ns[j] ELSE Deselect(ns[j])]
        ns2 == [ns1 EXCEPT ![src] = SelectAndFix(ns1[src])]
        adjacencyList == buildAdjacencyList(ns2, ls)
        nodesByDepth == findNodesAtDepths(sourceNodeId, layerDepth, adjacencyList)
        nodesAtExactLayer == DepthSet(nodesByDepth, layerDepth)
    IN [j \in DOMAIN ns2 |->
          IF ns2[j].id \in nodesAtExactLayer THEN SelectAndFix(ns2[j]) ELSE ns2[j]]

-----------------------------------------------------------------------------
(* graphUtils.ts: findRandomPath, as the set of paths a call can return *)

\* links.find(...): index of the first link joining the two ids, 0 if none
FindEdge(ls, a, b) ==
  LET hit(k) == (ls[k].source = a /\ ls[k].target = b)
                \/ (ls[k].source = b /\ ls[k].target = a)
  IN IF \E k \in DOMAIN ls : hit(k)
     THEN CHOOSE k \in DOMAIN ls : hit(k) /\ \A j \in 1..(k-1) : ~hit(j)
     ELSE 0

\* the for loop from step i at currentNodeId: the paths of full length it can
\* build (a shorter path makes the call retry, so it is no result)
RECURSIVE WalksFrom(_, _, _, _, _, _)
WalksFrom(currentNodeId, i, length, path, adjacencyList, ls) ==
  IF i = length THEN { path }
  ELSE UNION {
         IF FindEdge(ls, currentNodeId, nextNodeId) = 0 THEN {}
         ELSE WalksFrom(nextNodeId, i + 1, length,
                        Append(path, FindEdge(ls, currentNodeId, nextNodeId)),
                        adjacencyList, ls)
         : nextNodeId \in Neighbors(adjacencyList, currentNodeId) }

\* the paths (sequences of link indices) findRandomPath can return; the
\* result null is the sequence << 0 >>
NullPath == << 0 >>

findRandomPathResults(length, ns, ls) ==
  IF length <= 0 \/ Len(ls) = 0 \/ Len(ns) = 0 THEN { NullPath }
  ELSE UNION { WalksFrom(ns[s].id, 0, length, << >>,
                         buildAdjacencyList(ns, ls), ls) : s \in DOMAIN ns }

-----------------------------------------------------------------------------
(* GraphHighlighting: resetHighlighting, highlightPath *)

\* a reset that also deselects and unpins the nodes (variant)
resetNodesDeselect(ns) ==
  [j \in DOMAIN ns |->
     [ns[j] EXCEPT !.isHighlighted = FALSE, !.tooltipText = UndefinedText,
                   !.isSelected = FALSE, !.fx = Null, !.fy = Null]]

\* a reset that leaves the tooltip texts in place (variant)
resetNodesKeepTooltip(ns) ==
  [j \in DOMAIN ns |-> [ns[j] EXCEPT !.isHighlighted = FALSE]]

resetNodes(ns) ==
  [j \in DOMAIN ns |->
     [ns[j] EXCEPT !.isHighlighted = FALSE, !.tooltipText = UndefinedText]]

\* link.highlightLabel = undefined
resetLinks(ls) ==
  [k \in DOMAIN ls |->
     [ls[k] EXCEPT !.isHighlighted = FALSE, !.highlightLabel = UndefinedText]]

\* source.isHighlighted = true; source.isSelected = true; fix the position
HighlightNode(n) ==
  IF n.x # Undefined /\ n.y # Undefined
  THEN [n EXCEPT !.isHighlighted = TRUE, !.isSelected = TRUE, !.fx = n.x, !.fy = n.y]
  ELSE [n EXCEPT !.isHighlighted = TRUE, !.isSelected = TRUE]

\* the loop over the path: one edge and its two end nodes per step
RECURSIVE ApplyPath(_, _, _, _, _)
ApplyPath(i, path, extractedEdges, ns, ls) ==
  IF i > Len(path) THEN << ns, ls >>
  ELSE
    LET edge == ls[path[i]]
        ls1 == [ls EXCEPT ![path[i]] =
                  [edge EXCEPT !.isHighlighted = TRUE,
                               !.highlightLabel = extractedEdges[i]]]
        ns1 == [j \in DOMAIN ns |->
                  IF ns[j].id = edge.source \/ ns[j].id = edge.target
                  THEN HighlightNode(ns[j]) ELSE ns[j]]
    IN ApplyPath(i + 1, path, extractedEdges, ns1, ls1)

\* the optional argument entityExamples: given or not, and its entries
NoExamples == [given |-> FALSE, of |-> << >>]

\* entityExamples[entityName]: undefined for a name that has no entry
ExampleOf(entityExamples, entityName) ==
  IF entityExamples.given /\ entityName \in DOMAIN entityExamples.of
  THEN entityExamples.of[entityName] ELSE UndefinedText

\* if (example): undefined and the empty string are falsy
HasExample(example) == example # UndefinedText /\ example # ""

\* const clause = clauses && clauses[i]; an index past the end of clauses, or
\* no clauses at all (the empty sequence here), gives no clause
HasClause(clauses, i) == i \in DOMAIN clauses

\* if (clause && entityExamples) { ...; if (example) node.tooltipText = example }
\* for the source with clause.entity1, then for the target with clause.entity2
RECURSIVE ApplyTooltips(_, _, _, _, _, _)
ApplyTooltips(i, path, clauses, entityExamples, ns, ls) ==
  IF i > Len(path) THEN ns
  ELSE
    LET edge == ls[path[i]]
        SetTooltip(nds, id, entityName) ==
          [j \in DOMAIN nds |->
             IF nds[j].id = id /\ HasExample(ExampleOf(entityExamples, entityName))
             THEN [nds[j] EXCEPT !.tooltipText = ExampleOf(entityExamples, entityName)]
             ELSE nds[j]]
        ns1 == IF HasClause(clauses, i) /\ entityExamples.given
               THEN SetTooltip(SetTooltip(ns, edge.source, clauses[i].entity1),
                               edge.target, clauses[i].entity2)
               ELSE ns
    IN ApplyTooltips(i + 1, path, clauses, entityExamples, ns1, ls)

-----------------------------------------------------------------------------
(* graphUtils.ts: getShortestPathDistance, detectCommunities *)

\* Math.min, Math.max
Min(a, b) == IF a < b THEN a ELSE b

Max(a, b) == IF a > b THEN a ELSE b

\* Math.min(...values), Math.max(...values)
SetMin(S) == CHOOSE m \in S : \A e \in S : m <= e

SetMax(S) == CHOOSE m \in S : \A e \in S : m >= e

\* the number Infinity: above every distance in a graph of the model
Infinity == 1000000

\* a loop that returns the distance of the node it took from the queue, not
\* that of the neighbour it found (variant)
RECURSIVE ShortestLoopShort(_, _, _, _)
ShortestLoopShort(queue, visited, endId, adjList) ==
  IF queue = << >> THEN Infinity
  ELSE
    LET head == Head(queue)
        neighbors == Neighbors(adjList, head.id)
    IN IF endId \in neighbors THEN head.distance
       ELSE
         LET fresh == neighbors \ visited
             pushed == [i \in 1..Cardinality(fresh) |->
                          [id |-> SetToSeq(fresh)[i],
                           distance |-> head.distance + 1]]
         IN ShortestLoopShort(Tail(queue) \o pushed, visited \cup fresh,
                              endId, adjList)

\* the while loop of getShortestPathDistance: queue of {id, distance}
RECURSIVE ShortestLoop(_, _, _, _)
ShortestLoop(queue, visited, endId, adjList) ==
  IF queue = << >> THEN Infinity
  ELSE
    LET head == Head(queue)
        neighbors == Neighbors(adjList, head.id)
    IN IF endId \in neighbors THEN head.distance + 1
       ELSE
         LET fresh == neighbors \ visited
             pushed == [i \in 1..Cardinality(fresh) |->
                          [id |-> SetToSeq(fresh)[i],
                           distance |-> head.distance + 1]]
         IN ShortestLoop(Tail(queue) \o pushed, visited \cup fresh,
                         endId, adjList)

getShortestPathDistance(startId, endId, adjList) ==
  IF startId = endId THEN 0
  ELSE ShortestLoop(<< [id |-> startId, distance |-> 0] >>, {startId},
                    endId, adjList)

\* id.charAt(0).charCodeAt(0): the code of the first character as it is
\* written (variant)
FirstCharCodeRaw(id) ==
  CASE id = "a" -> 97
    [] id = "b" -> 98
    [] id = "cc" -> 99
    [] id = "zz" -> 122
    [] id = "Dd" -> 68
    [] id = "e" -> 101
    [] id \in LeafIds -> 110
    [] id \in ManyIds -> 109

\* id.charAt(0).toLowerCase().charCodeAt(0), for the ids of RawGraphs
FirstCharCode(id) ==
  CASE id = "a" -> 97
    [] id = "b" -> 98
    [] id = "cc" -> 99
    [] id = "zz" -> 122
    [] id = "Dd" -> 100
    [] id = "e" -> 101
    [] id \in LeafIds -> 110
    [] id \in ManyIds -> 109

\* seeds.indexOf(id): zero-based index of the first occurrence
IndexOf(seq, x) ==
  (CHOOSE i \in DOMAIN seq : seq[i] = x /\ \A j \in 1..(i-1) : seq[j] # x) - 1

\* Math.min(10, Math.max(3, Math.floor(nodes.length / 20)))
SeedCount(n) == Min(10, Max(3, n \div 20))

\* Math.floor(i * (nodes.length / seedCount)), as an index of a 1-based sequence
SeedIndex(i, n) == ((i * n) \div SeedCount(n)) + 1

\* the loop with `distance <= shortestDistance`: among seeds as near, the
\* last one wins (variant)
RECURSIVE ClosestSeedLast(_, _, _, _, _, _)
ClosestSeedLast(id, seeds, k, closestSeed, shortestDistance, adjList) ==
  IF k > Len(seeds) THEN closestSeed
  ELSE LET distance == getShortestPathDistance(id, seeds[k], adjList)
       IN IF distance <= shortestDistance
          THEN ClosestSeedLast(id, seeds, k + 1, seeds[k], distance, adjList)
          ELSE ClosestSeedLast(id, seeds, k + 1, closestSeed, shortestDistance,
                               adjList)

\* the loop `for (const seed of seeds)` from seed k on: the closest seed so far
RECURSIVE ClosestSeed(_, _, _, _, _, _)
ClosestSeed(id, seeds, k, closestSeed, shortestDistance, adjList) ==
  IF k > Len(seeds) THEN closestSeed
  ELSE LET distance == getShortestPathDistance(id, seeds[k], adjList)
       IN IF distance < shortestDistance
          THEN ClosestSeed(id, seeds, k + 1, seeds[k], distance, adjList)
          ELSE ClosestSeed(id, seeds, k + 1, closestSeed, shortestDistance,
                           adjList)

\* the Map<string, number> the call returns, or threw = TRUE when it ends in
\* a TypeError (nodes[index].id with nodes[index] undefined)
detectCommunities(ns, algorithm, ls) ==
  LET adjacencyList == buildAdjacencyList(ns, ls)
      n == Len(ns)
  IN CASE algorithm = "louvain" ->
            [threw |-> FALSE,
             communities |->
               [id \in NodeIds(ns) |->
                  Min(9, Cardinality(Neighbors(adjacencyList, id)) \div 2)]]
       [] algorithm = "girvan-newman" ->
            IF \E i \in 0..(SeedCount(n) - 1) : SeedIndex(i, n) \notin DOMAIN ns
            THEN [threw |-> TRUE, communities |-> [id \in {} |-> 0]]
            ELSE
              LET seeds == [k \in 1..SeedCount(n) |-> ns[SeedIndex(k - 1, n)].id]
                  isSeed(id) == \E k \in DOMAIN seeds : seeds[k] = id
              IN [threw |-> FALSE,
                  communities |->
                    [id \in NodeIds(ns) |->
                       IF isSeed(id) THEN IndexOf(seeds, id)
                       ELSE IndexOf(seeds,
                                    ClosestSeed(id, seeds, 1, seeds[1],
                                                Infinity, adjacencyList))]]
       [] OTHER ->
            [threw |-> FALSE,
             communities |-> [id \in NodeIds(ns) |-> FirstCharCode(id) % 10]]

-----------------------------------------------------------------------------
(* graphUtils.ts: applyColorScheme *)

\* the colours the colour picker hands over: a hex string and a colour name
PickerColors == { "#ff0000", "red" }

\* startsWith('#') || startsWith('rgb') || startsWith('hsl'), on the colours
\* of the model: all of them but the colour name
StartsWithHashRgbHsl(c) == c # "red"

\* the schemes of the switch that have a d3 interpolator
InterpolatedSchemes ==
  { "viridis", "plasma", "rainbow", "magma", "inferno", "turbo", "cividis" }

\* the color schemes the settings panel is set to ("plain" is no case of the switch)
ColorSchemes == { "default", "viridis", "plain" }

\* the communityDetection settings of the panel
Detections == { "none", "louvain" }

RECURSIVE Gcd(_, _)
Gcd(a, b) == IF b = 0 THEN a ELSE Gcd(b, a % b)

\* d3.interpolateViridis(num / den) and the like: an rgb string that depends
\* on the scheme and on the value only
Interpolate(scheme, num, den) ==
  LET g == Gcd(num, den)
  IN "rgb(" \o scheme \o " " \o ToString(num \div g) \o "/"
     \o ToString(den \div g) \o ")"

\* the nodes after the call (the node objects are updated in place), or
\* threw = TRUE when detectCommunities throws
applyColorScheme(ns, colorScheme, communityDetection, ls) ==
  IF colorScheme = "default"
  THEN [threw |-> FALSE,
        nodes |-> [i \in DOMAIN ns |->
                     IF StartsWithHashRgbHsl(ns[i].color)
                     THEN [ns[i] EXCEPT !.color = DefaultColor]
                     ELSE ns[i]]]
  ELSE
    LET detected == IF communityDetection # "none"
                    THEN detectCommunities(ns, communityDetection, ls)
                    ELSE [threw |-> FALSE, communities |-> [id \in {} |-> 0]]
        communities == detected.communities
        maxCommunity == Max(1, SetMax({ communities[id] : id \in DOMAIN communities }
                                      \cup { 0 }))
        color(i) ==
          IF colorScheme \notin InterpolatedSchemes THEN DefaultColor
          ELSE IF ns[i].id \in DOMAIN communities
          THEN Interpolate(colorScheme, communities[ns[i].id], maxCommunity)
          ELSE Interpolate(colorScheme, i - 1, Max(1, Len(ns) - 1))
    IN IF detected.threw THEN [threw |-> TRUE, nodes |-> ns]
       ELSE [threw |-> FALSE,
             nodes |-> [i \in DOMAIN ns |-> [ns[i] EXCEPT !.color = color(i)]]]

-----------------------------------------------------------------------------
(* The lines drawn for the links: the stroke and stroke-opacity attributes.  *)
(* A relevance score and a filter bound are in hundredths, an opacity too.   *)

\* useState<[number, number]>([0, 1]) of ForceGraphContainer
FullRange == << 0, 100 >>

\* the ranges the filter control is set to
FilterRanges == { << 0, 100 >>, << 3, 100 >>, << 0, 3 >> }

\* getColorFromEdgeScheme(score, scheme): some colour of the scheme
SchemeColor == "scheme"

\* d.relevanceScore < range[0] || d.relevanceScore > range[1]
OutOfRange(l, range) ==
  l.relevanceScore < range[1] \/ l.relevanceScore > range[2]

\* the stroke callback of the init effect and of the edge-filter effect (a
\* link of transformGraphData always has a relevanceScore)
Stroke(l, range) ==
  IF l.isHighlighted THEN "#000000"
  ELSE IF OutOfRange(l, range) THEN "#cccccc"
  ELSE SchemeColor

\* the stroke-opacity callback of the two effects
StrokeOpacity(l, range) ==
  IF l.isHighlighted THEN 100
  ELSE IF OutOfRange(l, range) THEN 30
  ELSE 80

RenderLinks(ls, range) ==
  [k \in DOMAIN ls |-> [stroke |-> Stroke(ls[k], range),
                        strokeOpacity |-> StrokeOpacity(ls[k], range)]]

\* getEdgeColor(d, settings): settings is the PhysicsSettings object, which
\* has no edgeFilterRange, so the range is [0, 1]
getEdgeColor(l) == Stroke(l, FullRange)

\* resetHighlighting on the lines: .attr('stroke', '#94a3b8')
ResetLines(lines) == [k \in DOMAIN lines |-> [lines[k] EXCEPT !.stroke = "#94a3b8"]]

\* updateHighlighting on the lines
UpdateLines(lines, ls) ==
  [k \in DOMAIN lines |->
     [lines[k] EXCEPT !.stroke = IF ls[k].isHighlighted THEN "#000000"
                                 ELSE getEdgeColor(ls[k])]]

-----------------------------------------------------------------------------
(* Initial state: the component is mounted, no graph has been loaded *)

EmptyMap == [id \in {} |-> << 0, 0 >>]

NoDrag == [phase |-> "idle", node |-> NullId, moved |-> FALSE, cur |-> << 0, 0 >>]

FrpIdle ==
  [pc |-> "idle", length |-> 0, restarts |-> 0, i |-> 0,
   currentNodeId |-> NullId, path |-> << >>, result |-> << >>]

\* an interaction: its kind, node, depth / layer / length, path, and the ids
\* selected when it completed
\* defaultSettings: colorScheme 'default', communityDetection 'none'
DefaultSettings == [colorScheme |-> "default", communityDetection |-> "none"]

\* no helper has been called
NoCall == [fn |-> "none", args |-> << >>, threw |-> FALSE, result |-> << >>]

Op(kind, node, n, path, sel) ==
  [kind |-> kind, node |-> node, n |-> n, path |-> path, sel |-> sel]

\* the values the program sets alpha and alphaTarget to, in hundredths, and 0
\* for an alpha below alphaMin
AlphaLevels == { 0, 5, 10, 20, 30, 50 }

\* alpha += (alphaTarget - alpha) * alphaDecay of one tick, alphaDecay being
\* 0.02: alpha moves towards alphaTarget and does not pass it.  The model
\* keeps alpha in AlphaLevels: its tick takes alpha to the next level on the
\* way to alphaTarget
Decay(a, target) ==
  IF a > target THEN SetMax({ l \in AlphaLevels : l < a /\ l >= target })
  ELSE IF a < target THEN SetMin({ l \in AlphaLevels : l > a /\ l <= target })
  ELSE a

\* simulation.alpha(a) without restart(): a timer that has ended stays so
\* (variant)
ReheatNoRestart(a) ==
  /\ alpha' = a
  /\ UNCHANGED << simulationRef, alphaTarget >>

\* simulation.alpha(a).restart()
Reheat(a) ==
  /\ alpha' = a
  /\ simulationRef' = "running"
  /\ UNCHANGED alphaTarget

\* useState(0), useState(1), useState(null) of EdgeRelevanceFilter
InitialFilter == [minFrac |-> 0, maxFrac |-> 100, isDragging |-> "null"]

Init ==
  /\ nodes = << >>
  /\ links = << >>
  /\ graph = 0
  /\ simReady = FALSE
  /\ simulationRef = "null"
  /\ alpha = 0
  /\ alphaTarget = 0
  /\ neighborhoodSelection = [sourceNodeId |-> NullId, currentDepth |-> 0]
  /\ exactLayerSelection = [sourceNodeId |-> NullId, currentLayer |-> 0]
  /\ isSpacePressed = FALSE
  /\ isNPressed = FALSE
  /\ isMPressed = FALSE
  /\ dragStartPositions = EmptyMap
  /\ drag = NoDrag
  /\ frp = FrpIdle
  /\ call = NoCall
  /\ settings = DefaultSettings
  /\ edgeFilterRange = FullRange
  /\ prevEdgeFilterRef = FullRange
  /\ linksRef = << >>
  /\ lastOp = Op("none", NullId, 0, << >>, {})
  /\ dragOrigin = EmptyMap
  /\ edgeRelevanceFilter = InitialFilter

keys == << isSpacePressed, isNPressed, isMPressed >>
anchors == << neighborhoodSelection, exactLayerSelection >>
rendering == << edgeFilterRange, prevEdgeFilterRef, linksRef >>

energy == << alpha, alphaTarget >>

-----------------------------------------------------------------------------
(* ForceDirectedGraph: the graph effect; GraphRenderer: the init effect *)

Scores(ls) == [k \in DOMAIN ls |-> ls[k].relevanceScore]

\* useEffect(..., [graph]): transformGraphData, setNodes, setLinks; the
\* cleanup of the init effect of GraphRenderer stops the simulation it built
Reload(g) ==
  /\ drag.phase = "idle"
  /\ graph = 0 \/ simReady
  /\ links' = TransformLinks(RawGraphs[g], nodes)
  \* the colour effect has nodes.length among its dependencies: it colours
  \* the new nodes when their number has changed
  /\ nodes' = LET newNodes == TransformNodes(RawGraphs[g], nodes)
              IN IF Len(newNodes) # Len(nodes) /\ Len(newNodes) # 0
                 THEN applyColorScheme(newNodes, settings.colorScheme,
                                       settings.communityDetection, links').nodes
                 ELSE newNodes
  /\ graph' = g
  /\ simReady' = FALSE
  /\ simulationRef' = IF simReady THEN "stopped" ELSE simulationRef
  \* the edge-filter effect has links.length among its dependencies: it runs
  \* (after the init effect of the same commit) when the number of links changes
  /\ prevEdgeFilterRef' = IF Len(links') # Len(links) /\ Len(links') # 0
                          THEN edgeFilterRange ELSE prevEdgeFilterRef
  /\ lastOp' = Op("reload", NullId, g, << >>, SelectedIds(nodes'))
  /\ UNCHANGED << keys, anchors, dragStartPositions, drag, frp, call,
                  settings, edgeFilterRange, linksRef, dragOrigin, energy,
                  edgeRelevanceFilter >>

\* where d3 puts a node that has no coordinates yet (a fixed spiral in d3)
PhyllotaxisPoint(i) ==
  LET pts == SetToSeq(Points) IN pts[((i - 1) % Len(pts)) + 1]

\* d3.forceSimulation(nodes): fx, fy override x, y; a missing coordinate is set
InitializeNode(n, i) ==
  LET x1 == IF IsNumber(n.fx) THEN n.fx ELSE n.x
      y1 == IF IsNumber(n.fy) THEN n.fy ELSE n.y
  IN IF x1 = Undefined \/ y1 = Undefined
     THEN [n EXCEPT !.x = PhyllotaxisPoint(i)[1], !.y = PhyllotaxisPoint(i)[2]]
     ELSE [n EXCEPT !.x = x1, !.y = y1]

\* useEffect(..., [nodes, links, width, height]) of GraphRenderer: a new
\* simulation, a new drag behaviour (and its dragStartPositions), new handlers
InitSimulation ==
  /\ ~simReady
  /\ Len(nodes) # 0
  /\ nodes' = [i \in DOMAIN nodes |-> InitializeNode(nodes[i], i)]
  /\ simReady' = TRUE
  /\ simulationRef' = "running"
  \* a new simulation has alphaTarget 0; sim.alpha(0.5).restart()
  /\ alpha' = 50
  /\ alphaTarget' = 0
  /\ dragStartPositions' = EmptyMap
  /\ linksRef' = RenderLinks(links, edgeFilterRange)
  /\ UNCHANGED << links, graph, keys, anchors, drag, frp, call, settings, edgeFilterRange,
                  prevEdgeFilterRef, lastOp, dragOrigin,
                  edgeRelevanceFilter >>

\* a tick that moves every node where the forces take it (variant)
TickNodeFree(n, p) == [n EXCEPT !.x = p[1], !.y = p[2]]

\* one tick of the d3 simulation: a pinned coordinate is set to fx / fy, a
\* free one moves where the forces take it; alpha decays, and the timer ends
\* after the tick that takes alpha below alphaMin
TickNode(n, p) ==
  [n EXCEPT !.x = IF IsNumber(n.fx) THEN n.fx ELSE p[1],
            !.y = IF IsNumber(n.fy) THEN n.fy ELSE p[2]]

Tick ==
  /\ simReady
  /\ simulationRef = "running"
  /\ alpha' = Decay(alpha, alphaTarget)
  /\ \E p \in [DOMAIN nodes -> Points] :
       nodes' = [i \in DOMAIN nodes |-> TickNode(nodes[i], p[i])]
  /\ simulationRef' = IF alpha' = 0 THEN "ended" ELSE "running"
  /\ UNCHANGED << links, graph, simReady, alphaTarget, keys, anchors, dragStartPositions,
                  drag, frp, call, settings, rendering, lastOp, dragOrigin,
                  edgeRelevanceFilter >>

\* useEffect(..., [settings.linkDistance, ...]): the forces take the new
\* parameters and sim.alpha(0.3).restart() starts the timer of the simulation
\* simulationRef.current refers to
UpdateSettings ==
  /\ simulationRef # "null"
  \* a reload and the init effect that follows it are one commit of React:
  \* no other effect runs between them
  /\ simReady \/ Len(nodes) = 0
  /\ Reheat(30)
  /\ UNCHANGED << nodes, links, graph, simReady, keys, anchors,
                  dragStartPositions, drag, frp, call, settings, rendering, lastOp, dragOrigin,
                  edgeRelevanceFilter >>

\* the settings panel changes colorScheme or communityDetection: the colour
\* effect of ForceDirectedGraph colours the nodes and hands React a new
\* array, so the init effect of GraphRenderer runs again
SetColorScheme(colorScheme, communityDetection) ==
  /\ drag.phase = "idle"
  /\ simReady \/ Len(nodes) = 0
  /\ settings' = [colorScheme |-> colorScheme,
                  communityDetection |-> communityDetection]
  /\ settings' # settings
  /\ IF Len(nodes) = 0
     THEN UNCHANGED << nodes, simReady, simulationRef, energy >>
     \* simulationRef.current.alpha(0.1).restart(), then the cleanup of the
     \* init effect: sim.stop()
     ELSE /\ nodes' = applyColorScheme(nodes, colorScheme, communityDetection,
                                       links).nodes
          /\ simReady' = FALSE
          /\ simulationRef' = "stopped"
          /\ alpha' = 10
          /\ UNCHANGED alphaTarget
  /\ lastOp' = Op("scheme", NullId, 0, << >>, SelectedIds(nodes))
  /\ UNCHANGED << links, graph, keys, anchors, dragStartPositions, drag, frp,
                  call, rendering, dragOrigin,
                  edgeRelevanceFilter >>

\* a picker that recolours the selected nodes whenever another node is
\* selected, the picked node selected or not (variant)
handleNodeColorChangeGroup(nodeIndex, newColor) ==
  /\ simReady
  /\ drag.phase = "idle"
  /\ nodeIndex \in DOMAIN nodes
  /\ LET clickedNode == nodes[nodeIndex]
         asGroup == \E j \in DOMAIN nodes : nodes[j].isSelected /\ j # nodeIndex
     IN /\ nodes' =
             [j \in DOMAIN nodes |->
                IF asGroup
                THEN IF nodes[j].isSelected
                     THEN [nodes[j] EXCEPT !.color = newColor] ELSE nodes[j]
                ELSE IF j # nodeIndex THEN nodes[j]
                ELSE IF clickedNode.isSelected
                THEN [nodes[j] EXCEPT !.color = newColor]
                ELSE [nodes[j] EXCEPT !.isSelected = TRUE,
                                      !.fx = OrZero(clickedNode.x),
                                      !.fy = OrZero(clickedNode.y),
                                      !.color = newColor]]
        /\ lastOp' = Op("color", clickedNode.id, 0, << >>,
                        IF asGroup THEN SelectedIds(nodes) ELSE { clickedNode.id })
  /\ Reheat(10)
  /\ UNCHANGED << links, graph, simReady, keys, anchors, dragStartPositions,
                  drag, frp, call, settings, rendering, dragOrigin,
                  edgeRelevanceFilter >>

\* the colour picker opened on nodes[nodeIndex] hands over newColor
handleNodeColorChange(nodeIndex, newColor) ==
  /\ simReady
  /\ drag.phase = "idle"
  /\ nodeIndex \in DOMAIN nodes
  /\ LET clickedNode == nodes[nodeIndex]
         hasSelectedNodesGroup ==
           \E j \in DOMAIN nodes : nodes[j].isSelected /\ j # nodeIndex
         asGroup == clickedNode.isSelected /\ hasSelectedNodesGroup
     IN /\ nodes' =
             [j \in DOMAIN nodes |->
                IF asGroup
                THEN IF nodes[j].isSelected
                     THEN [nodes[j] EXCEPT !.color = newColor] ELSE nodes[j]
                ELSE IF j # nodeIndex THEN nodes[j]
                ELSE IF clickedNode.isSelected
                THEN [nodes[j] EXCEPT !.color = newColor]
                ELSE [nodes[j] EXCEPT !.isSelected = TRUE,
                                      !.fx = OrZero(clickedNode.x),
                                      !.fy = OrZero(clickedNode.y),
                                      !.color = newColor]]
        /\ lastOp' = Op("color", clickedNode.id, 0, << >>,
                        IF asGroup THEN SelectedIds(nodes) ELSE { clickedNode.id })
  /\ Reheat(10)
  /\ UNCHANGED << links, graph, simReady, keys, anchors, dragStartPositions,
                  drag, frp, call, settings, rendering, dragOrigin,
                  edgeRelevanceFilter >>

\* |a - b| > 0.1, in hundredths
FarApart(a, b) == (IF a > b THEN a - b ELSE b - a) > 10

\* handleEdgeFilterChange of ForceGraphContainer, then the edge-filter effect
\* of GraphRenderer (in a commit of its own: simReady, or nothing to build)
ApplyEdgeFilterRange(range) ==
  /\ simReady \/ Len(nodes) = 0
  /\ edgeFilterRange' = range
  /\ IF Len(links) = 0
     THEN UNCHANGED << prevEdgeFilterRef, linksRef, simulationRef, energy >>
     ELSE /\ linksRef' = RenderLinks(links, range)
          /\ IF /\ simulationRef # "null"
                /\ \/ FarApart(range[1], prevEdgeFilterRef[1])
                   \/ FarApart(range[2], IF prevEdgeFilterRef[2] = 0 THEN 100
                                         ELSE prevEdgeFilterRef[2])
             THEN Reheat(5)
             ELSE UNCHANGED << simulationRef, energy >>
          /\ prevEdgeFilterRef' = range
  /\ UNCHANGED << nodes, links, graph, simReady, keys, anchors,
                  dragStartPositions, drag, frp, call, settings, dragOrigin >>

\* the range handed in by the host, the widget left alone
SetEdgeFilterRange(range) ==
  /\ ApplyEdgeFilterRange(range)
  /\ UNCHANGED << lastOp, edgeRelevanceFilter >>

-----------------------------------------------------------------------------
(* EdgeRelevanceFilter: the handles, handleMouseMove, handleMouseUp *)

\* width = 200
FilterWidth == 200

\* e.clientX - rect.left of the mouse events: left of the track, on it, right
\* of it
MouseXs == { -50, 0, 20, 50, 100, 150, 200, 250 }

\* Math.max(0, Math.min(1, x / width)), in hundredths
NewFrac(x) == Max(0, Min(100, (x * 100) \div FilterWidth))

\* a move that takes the handle whatever the other handle's place (variant)
MoveAcceptedAlways(f, newFrac) == TRUE

\* if (newFrac <= maxFrac) for the min handle, if (newFrac >= minFrac) for the
\* max handle
MoveAccepted(f, newFrac) ==
  IF f.isDragging = "min" THEN newFrac <= f.maxFrac ELSE newFrac >= f.minFrac

\* onMouseDown={() => setIsDragging('min')}, ... ('max')
FilterMouseDown(handle) ==
  /\ edgeRelevanceFilter' = [edgeRelevanceFilter EXCEPT !.isDragging = handle]
  /\ lastOp' = Op("grab", NullId, 0, << >>, {})
  /\ UNCHANGED << nodes, links, graph, simReady, simulationRef, keys, anchors,
                  dragStartPositions, drag, frp, call, settings, rendering,
                  dragOrigin, energy >>

\* handleMouseMove, with onChange = handleEdgeFilterChange of the container
handleMouseMove(x) ==
  /\ edgeRelevanceFilter.isDragging # "null"
  /\ lastOp' = Op("move", NullId, x, << >>, {})
  /\ IF MoveAccepted(edgeRelevanceFilter, NewFrac(x))
     THEN /\ edgeRelevanceFilter' =
               IF edgeRelevanceFilter.isDragging = "min"
               THEN [edgeRelevanceFilter EXCEPT !.minFrac = NewFrac(x)]
               ELSE [edgeRelevanceFilter EXCEPT !.maxFrac = NewFrac(x)]
          /\ ApplyEdgeFilterRange(<< edgeRelevanceFilter'.minFrac,
                                     edgeRelevanceFilter'.maxFrac >>)
     ELSE UNCHANGED << nodes, links, graph, simReady, simulationRef, keys, anchors,
                       dragStartPositions, drag, frp, call, settings, rendering,
                       dragOrigin, energy, edgeRelevanceFilter >>

\* handleMouseUp
handleMouseUp ==
  /\ edgeRelevanceFilter.isDragging # "null"
  /\ edgeRelevanceFilter' = [edgeRelevanceFilter EXCEPT !.isDragging = "null"]
  /\ lastOp' = Op("release", NullId, 0, << >>, {})
  /\ UNCHANGED << nodes, links, graph, simReady, simulationRef, keys, anchors,
                  dragStartPositions, drag, frp, call, settings, rendering,
                  dragOrigin, energy >>

-----------------------------------------------------------------------------
(* ForceDirectedGraph: handleKeyDown, handleKeyUp *)

KeyCodes == { "Space", "KeyN", "KeyM" }

SetKey(code, v) ==
  /\ isSpacePressed' = IF code = "Space" THEN v ELSE isSpacePressed
  /\ isNPressed' = IF code = "KeyN" THEN v ELSE isNPressed
  /\ isMPressed' = IF code = "KeyM" THEN v ELSE isMPressed

KeyDown(code) ==
  /\ SetKey(code, TRUE)
  /\ UNCHANGED << nodes, links, graph, simReady, simulationRef, anchors, dragStartPositions,
                  drag, frp, call, settings, rendering, lastOp, dragOrigin, energy,
                  edgeRelevanceFilter >>

KeyUp(code) ==
  /\ SetKey(code, FALSE)
  /\ UNCHANGED << nodes, links, graph, simReady, simulationRef, anchors, dragStartPositions,
                  drag, frp, call, settings, rendering, lastOp, dragOrigin, energy,
                  edgeRelevanceFilter >>

-----------------------------------------------------------------------------
(* GraphInteractions.ts: setupDragBehavior *)

\* the coordinates a group drag may move a node to (the pointer stays in Points)
MaxShift == 1
Field == (0 - MaxShift)..(1 + MaxShift)

\* fx if it is neither undefined nor null, else x if it is neither, else 0
StartPosition(n) ==
  << IF IsNumber(n.fx) THEN n.fx ELSE (IF IsNumber(n.x) THEN n.x ELSE 0),
     IF IsNumber(n.fy) THEN n.fy ELSE (IF IsNumber(n.y) THEN n.y ELSE 0) >>

PositionsOfSelected(ns) ==
  [id \in SelectedIds(ns) |-> StartPosition(ns[FindIndex(ns, id)])]

\* d.isSelected = true; d.fx = d.x; d.fy = d.y
StartNode(n) ==
  IF n.x # Undefined /\ n.y # Undefined
  THEN [n EXCEPT !.isSelected = TRUE, !.fx = n.x, !.fy = n.y]
  ELSE [n EXCEPT !.isSelected = TRUE]

\* with space held: every selected node whose fx or fy is undefined is fixed
FixSelected(ns) ==
  [j \in DOMAIN ns |->
     IF ns[j].isSelected /\ (ns[j].fx = Undefined \/ ns[j].fy = Undefined)
     THEN [ns[j] EXCEPT !.fx = OrZero(ns[j].x), !.fy = OrZero(ns[j].y)]
     ELSE ns[j]]

dragstarted(d) ==
  /\ simReady
  /\ drag.phase = "idle"
  /\ d \in NodeIds(nodes)
  /\ LET i == FindIndex(nodes, d)
         ns1 == [nodes EXCEPT ![i] = StartNode(nodes[i])]
     IN /\ nodes' = IF isSpacePressed THEN FixSelected(ns1) ELSE ns1
        /\ dragStartPositions' = IF isSpacePressed THEN PositionsOfSelected(ns1)
                                 ELSE dragStartPositions
        /\ dragOrigin' = PositionsOfSelected(ns1)
        /\ drag' = [phase |-> "active", node |-> d, moved |-> FALSE,
                    cur |-> << ns1[i].x, ns1[i].y >>]
  /\ lastOp' = IF lastOp.kind \in { "nbr", "layer", "shift" } /\ lastOp.node = d
               THEN lastOp ELSE Op("drag", d, 0, << >>, {})
  \* if (!event.active) simulation.alphaTarget(0.3).restart()
  /\ alphaTarget' = 30
  /\ simulationRef' = "running"
  /\ UNCHANGED << links, graph, simReady, alpha, keys, anchors, frp, call, settings, rendering,
                  edgeRelevanceFilter >>

\* a drag event that moves the selected group whether space is held or not
\* (variant)
DraggedNodesGroup(ns, d, pt, space, startPositions) ==
  LET ns1 == [j \in DOMAIN ns |->
                IF ns[j].id = d THEN [ns[j] EXCEPT !.fx = pt[1], !.fy = pt[2]]
                ELSE ns[j]]
  IN [j \in DOMAIN ns1 |->
        IF ns1[j].id # d /\ ns1[j].isSelected
        THEN [ns1[j] EXCEPT !.fx = OrZero(ns1[j].fx) + pt[1] - OrZero(ns[FindIndex(ns, d)].fx),
                            !.fy = OrZero(ns1[j].fy) + pt[2] - OrZero(ns[FindIndex(ns, d)].fy)]
        ELSE ns1[j]]

\* the nodes after a drag event at pt on node d
DraggedNodes(ns, d, pt, space, startPositions) ==
  LET ns1 == [j \in DOMAIN ns |->
                IF ns[j].id = d THEN [ns[j] EXCEPT !.fx = pt[1], !.fy = pt[2]]
                ELSE ns[j]]
  IN IF ~space \/ d \notin DOMAIN startPositions THEN ns1
     ELSE
       LET totalDeltaX == pt[1] - startPositions[d][1]
           totalDeltaY == pt[2] - startPositions[d][2]
       IN [j \in DOMAIN ns1 |->
             IF ns1[j].id # d /\ ns1[j].isSelected
                /\ ns1[j].id \in DOMAIN startPositions
             THEN [ns1[j] EXCEPT
                     !.fx = startPositions[ns1[j].id][1] + totalDeltaX,
                     !.fy = startPositions[ns1[j].id][2] + totalDeltaY]
             ELSE ns1[j]]

dragged(pt) ==
  /\ drag.phase = "active"
  /\ nodes' = DraggedNodes(nodes, drag.node, pt, isSpacePressed, dragStartPositions)
  /\ \A j \in DOMAIN nodes :
       IsNumber(nodes'[j].fx) => nodes'[j].fx \in Field /\ nodes'[j].fy \in Field
  /\ drag' = [drag EXCEPT !.moved = TRUE, !.cur = pt]
  /\ lastOp' = Op("drag", drag.node, IF isSpacePressed THEN 1 ELSE 0, << >>, {})
  /\ UNCHANGED << links, graph, simReady, simulationRef, keys, anchors, dragStartPositions,
                  frp, call, settings, rendering, dragOrigin, energy,
                  edgeRelevanceFilter >>

\* d.fx = event.x; d.fy = event.y; the map is cleared only with space held.
\* d3-drag lets the click through only when the pointer has not moved.
\* a drag end that leaves the energy target where the drag start put it
\* (variant)
EndTargetKept(active) == alphaTarget

\* if (!event.active) simulation.alphaTarget(0)
EndTarget(active) == IF active = 0 THEN 0 ELSE alphaTarget

dragended ==
  /\ drag.phase = "active"
  /\ nodes' = [j \in DOMAIN nodes |->
                 IF nodes[j].id = drag.node
                 THEN [nodes[j] EXCEPT !.fx = drag.cur[1], !.fy = drag.cur[2]]
                 ELSE nodes[j]]
  /\ dragStartPositions' = IF isSpacePressed THEN EmptyMap ELSE dragStartPositions
  /\ drag' = IF drag.moved THEN NoDrag ELSE [drag EXCEPT !.phase = "released"]
  /\ dragOrigin' = EmptyMap
  \* event.active is 0 at the end of the only gesture
  /\ alphaTarget' = EndTarget(0)
  /\ UNCHANGED << links, graph, simReady, simulationRef, alpha, keys, anchors, frp, call, settings, rendering, lastOp,
                  edgeRelevanceFilter >>

-----------------------------------------------------------------------------
(* GraphInteractions.ts: handleNodeClick *)

IsSelectedId(ns, id) == ns[FindIndex(ns, id)].isSelected

\* a shift branch that deselects every node (variant)
ShiftClickAll(d) ==
  /\ nodes' = [j \in DOMAIN nodes |-> Deselect(nodes[j])]
  /\ neighborhoodSelection' =
       IF neighborhoodSelection.sourceNodeId = d
       THEN [neighborhoodSelection EXCEPT !.currentDepth = 0]
       ELSE neighborhoodSelection
  /\ lastOp' = Op("shift", d, 0, << >>, {})
  /\ UNCHANGED exactLayerSelection

\* the shift branch
ShiftClick(d) ==
  /\ nodes' = [j \in DOMAIN nodes |->
                 IF nodes[j].id = d THEN Deselect(nodes[j]) ELSE nodes[j]]
  /\ neighborhoodSelection' =
       IF neighborhoodSelection.sourceNodeId = d
       THEN [neighborhoodSelection EXCEPT !.currentDepth = 0]
       ELSE neighborhoodSelection
  /\ lastOp' = Op("shift", d, 0, << >>, {})
  /\ UNCHANGED exactLayerSelection

\* an N branch that starts again at depth 1 on every click (variant)
NeighborhoodClickRestart(d) ==
  LET next == [sourceNodeId |-> d, currentDepth |-> 1]
  IN /\ neighborhoodSelection' = next
     /\ nodes' = selectNodeNeighborhood(d, next.currentDepth, nodes, links)
     /\ lastOp' = Op("nbr", d, next.currentDepth, << >>, SelectedIds(nodes'))
     /\ UNCHANGED exactLayerSelection

\* the N branch
NeighborhoodClick(d) ==
  LET next == IF ~IsSelectedId(nodes, d) \/ neighborhoodSelection.sourceNodeId # d
              THEN [sourceNodeId |-> d, currentDepth |-> 1]
              ELSE [neighborhoodSelection EXCEPT !.currentDepth = @ + 1]
  IN /\ next.currentDepth <= MaxDepth
     /\ neighborhoodSelection' = next
     /\ nodes' = selectNodeNeighborhood(d, next.currentDepth, nodes, links)
     /\ lastOp' = Op("nbr", d, next.currentDepth, << >>, SelectedIds(nodes'))
     /\ UNCHANGED exactLayerSelection

\* an M branch that also takes the neighbourhood anchor (variant)
ExactLayerClickBoth(d) ==
  LET next == IF ~IsSelectedId(nodes, d) \/ exactLayerSelection.sourceNodeId # d
              THEN [sourceNodeId |-> d, currentLayer |-> 1]
              ELSE [exactLayerSelection EXCEPT !.currentLayer = @ + 1]
  IN /\ next.currentLayer <= MaxDepth
     /\ exactLayerSelection' = next
     /\ nodes' = selectExactLayer(d, next.currentLayer, nodes, links)
     /\ lastOp' = Op("layer", d, next.currentLayer, << >>, SelectedIds(nodes'))
     /\ neighborhoodSelection' = [sourceNodeId |-> d, currentDepth |-> 0]

\* the M branch
ExactLayerClick(d) ==
  LET next == IF ~IsSelectedId(nodes, d) \/ exactLayerSelection.sourceNodeId # d
              THEN [sourceNodeId |-> d, currentLayer |-> 1]
              ELSE [exactLayerSelection EXCEPT !.currentLayer = @ + 1]
  IN /\ next.currentLayer <= MaxDepth
     /\ exactLayerSelection' = next
     /\ nodes' = selectExactLayer(d, next.currentLayer, nodes, links)
     /\ lastOp' = Op("layer", d, next.currentLayer, << >>, SelectedIds(nodes'))
     /\ UNCHANGED neighborhoodSelection

handleNodeClick(shiftKey) ==
  /\ drag.phase = "released"
  /\ IF shiftKey THEN ShiftClick(drag.node) /\ Reheat(30)
     ELSE IF isNPressed THEN NeighborhoodClick(drag.node) /\ Reheat(20)
     ELSE IF isMPressed THEN ExactLayerClick(drag.node) /\ Reheat(20)
     ELSE /\ lastOp' = Op("plain", drag.node, 0, << >>, {})
          /\ UNCHANGED << nodes, anchors, simulationRef, energy >>
  /\ drag' = NoDrag
  /\ UNCHANGED << links, graph, simReady, keys, dragStartPositions, frp, call, settings, rendering,
                  dragOrigin,
                  edgeRelevanceFilter >>

-----------------------------------------------------------------------------
(* GraphRenderer.tsx: svg.on('click') *)

svgClick(shiftKey) ==
  /\ simReady
  /\ drag.phase = "idle"
  /\ shiftKey
  /\ neighborhoodSelection' = [sourceNodeId |-> NullId, currentDepth |-> 0]
  /\ exactLayerSelection' = [sourceNodeId |-> NullId, currentLayer |-> 0]
  /\ nodes' = [j \in DOMAIN nodes |-> Deselect(nodes[j])]
  /\ lastOp' = Op("bg", NullId, Cardinality(SelectedIds(nodes)), << >>, {})
  /\ Reheat(50)
  /\ UNCHANGED << links, graph, simReady, keys, dragStartPositions, drag, frp, call, settings, rendering,
                  dragOrigin,
                  edgeRelevanceFilter >>

-----------------------------------------------------------------------------
(* GraphHighlighting: highlightPath *)

\* the edge-type sequences the host hands in: "x", "y", "x", ...
EdgeTypes(k) == [i \in 1..k |-> IF i % 2 = 1 THEN "x" ELSE "y"]

highlightPathWith(extractedEdges, clauses, entityExamples) ==
  /\ simReady
  /\ drag.phase \in { "idle", "active" }
  /\ IF Len(nodes) = 0 \/ Len(links) = 0 \/ Len(extractedEdges) = 0
     THEN /\ UNCHANGED << nodes, links, linksRef, simulationRef, energy >>
          /\ lastOp' = Op("nohighlight", NullId, Len(extractedEdges), << >>, {})
     ELSE \E path \in findRandomPathResults(Len(extractedEdges),
                                            resetNodes(nodes), resetLinks(links)) :
            IF path = NullPath \/ Len(path) < Len(extractedEdges)
            THEN /\ nodes' = resetNodes(nodes)
                 /\ links' = resetLinks(links)
                 /\ linksRef' = ResetLines(linksRef)
                 /\ lastOp' = Op("nohighlight", NullId, Len(extractedEdges), << >>, {})
                 /\ UNCHANGED << simulationRef, energy >>
            ELSE /\ nodes' = ApplyTooltips(1, path, clauses, entityExamples,
                                           ApplyPath(1, path, extractedEdges,
                                                     resetNodes(nodes),
                                                     resetLinks(links))[1],
                                           links)
                 /\ links' = ApplyPath(1, path, extractedEdges,
                                       resetNodes(nodes), resetLinks(links))[2]
                 /\ linksRef' = UpdateLines(ResetLines(linksRef), links')
                 /\ lastOp' = Op("highlight", NullId, Len(extractedEdges), path, {})
                 /\ Reheat(20)
  /\ UNCHANGED << graph, simReady, keys, anchors,
                  dragStartPositions, drag, frp, call, settings, edgeFilterRange,
                  prevEdgeFilterRef, dragOrigin,
                  edgeRelevanceFilter >>

\* the call without the optional arguments clauses and entityExamples
highlightPath(extractedEdges) ==
  highlightPathWith(extractedEdges, << >>, NoExamples)

-----------------------------------------------------------------------------
(* The viewer: every handler, effect and tick *)

Next ==
  \/ \E g \in GraphIds : Reload(g)
  \/ InitSimulation
  \/ Tick
  \/ \E code \in KeyCodes : KeyDown(code)
  \/ \E code \in KeyCodes : KeyUp(code)
  \/ \E d \in NodeIds(nodes) : dragstarted(d)
  \/ \E pt \in Points : dragged(pt)
  \/ dragended
  \/ \E shiftKey \in BOOLEAN : handleNodeClick(shiftKey)
  \/ \E shiftKey \in BOOLEAN : svgClick(shiftKey)
  \/ \E k \in 0..MaxPathLen : highlightPath(EdgeTypes(k))
  \/ UpdateSettings
  \/ \E range \in FilterRanges : SetEdgeFilterRange(range)
  \/ \E colorScheme \in ColorSchemes, communityDetection \in Detections :
       SetColorScheme(colorScheme, communityDetection)
  \/ \E nodeIndex \in DOMAIN nodes, newColor \in PickerColors :
       handleNodeColorChange(nodeIndex, newColor)

Spec == Init /\ [][Next]_vars

-----------------------------------------------------------------------------
(* Scenarios: the viewer with some of its inputs left out, each small       *)
(* enough to explore exhaustively                                           *)

\* the path graph and the graph without edges
SelectGraphs == { 1, 2 }

\* selection by click: no group drag, no path highlight
NextSelect ==
  \/ \E g \in SelectGraphs : Reload(g)
  \/ InitSimulation
  \/ Tick
  \/ \E code \in { "KeyN", "KeyM" } : KeyDown(code)
  \/ \E code \in { "KeyN", "KeyM" } : KeyUp(code)
  \/ \E d \in NodeIds(nodes) : dragstarted(d)
  \/ dragended
  \/ \E shiftKey \in BOOLEAN : handleNodeClick(shiftKey)
  \/ \E shiftKey \in BOOLEAN : svgClick(shiftKey)

SpecSelect == Init /\ [][NextSelect]_vars

\* the same clicks and keys with the simulation at rest
NextClick ==
  \/ \E g \in SelectGraphs : Reload(g)
  \/ InitSimulation
  \/ \E code \in { "KeyN", "KeyM" } : KeyDown(code)
  \/ \E code \in { "KeyN", "KeyM" } : KeyUp(code)
  \/ \E d \in NodeIds(nodes) : dragstarted(d)
  \/ dragended
  \/ \E shiftKey \in BOOLEAN : handleNodeClick(shiftKey)
  \/ \E shiftKey \in BOOLEAN : svgClick(shiftKey)

SpecClick == Init /\ [][NextClick]_vars

\* the graph of two nodes
DragGraphs == { 3 }

\* dragging, alone and in a group, under the running simulation
NextDrag ==
  \/ \E g \in DragGraphs : Reload(g)
  \/ InitSimulation
  \/ Tick
  \/ KeyDown("Space")
  \/ KeyUp("Space")
  \/ \E d \in NodeIds(nodes) : dragstarted(d)
  \/ \E pt \in Points : dragged(pt)
  \/ dragended
  \/ \E shiftKey \in BOOLEAN : handleNodeClick(shiftKey)

SpecDrag == Init /\ [][NextDrag]_vars

\* the running simulation between clicks, drags and path highlights
NextTick ==
  \/ \E g \in DragGraphs : Reload(g)
  \/ InitSimulation
  \/ Tick
  \/ KeyDown("KeyN")
  \/ KeyUp("KeyN")
  \/ \E d \in NodeIds(nodes) : dragstarted(d)
  \/ \E pt \in Points : dragged(pt)
  \/ dragended
  \/ \E shiftKey \in BOOLEAN : handleNodeClick(shiftKey)
  \/ \E shiftKey \in BOOLEAN : svgClick(shiftKey)
  \/ \E k \in 0..MaxPathLen : highlightPath(EdgeTypes(k))

SpecTick == Init /\ [][NextTick]_vars

\* loading and reloading graphs between clicks and path highlights
NextBuild ==
  \/ \E g \in GraphIds : Reload(g)
  \/ InitSimulation
  \/ \E d \in NodeIds(nodes) : dragstarted(d)
  \/ \E pt \in Points : dragged(pt)
  \/ dragended
  \/ \E shiftKey \in BOOLEAN : handleNodeClick(shiftKey)
  \/ \E k \in 0..MaxPathLen : highlightPath(EdgeTypes(k))

SpecBuild == Init /\ [][NextBuild]_vars

\* the life of the simulation: built, ticking, torn down by a reload
NextLife ==
  \/ \E g \in GraphIds : Reload(g)
  \/ InitSimulation
  \/ Tick
  \/ UpdateSettings
  \/ \E k \in 0..MaxPathLen : highlightPath(EdgeTypes(k))

SpecLife == Init /\ [][NextLife]_vars

\* the graphs of the scenarios about highlights and the edge filter
FilterGraphs == { 1, 3 }

\* resetHighlighting called on its own, between loads, clicks and highlights
resetHighlighting ==
  /\ simReady
  /\ drag.phase = "idle"
  /\ nodes' = resetNodes(nodes)
  /\ links' = resetLinks(links)
  /\ linksRef' = ResetLines(linksRef)
  /\ lastOp' = Op("reset", NullId,
                  Cardinality({ k \in DOMAIN links : links[k].isHighlighted }),
                  << >>, SelectedIds(nodes))
  /\ UNCHANGED << graph, simReady, simulationRef, keys, anchors,
                  dragStartPositions, drag, frp, call, settings, edgeFilterRange,
                  prevEdgeFilterRef, dragOrigin, energy,
                  edgeRelevanceFilter >>

NextReset ==
  \/ \E g \in FilterGraphs : Reload(g)
  \/ InitSimulation
  \/ \E d \in NodeIds(nodes) : dragstarted(d)
  \/ dragended
  \/ \E shiftKey \in BOOLEAN : handleNodeClick(shiftKey)
  \/ \E k \in 0..MaxPathLen : highlightPath(EdgeTypes(k))
  \/ resetHighlighting

SpecReset == Init /\ [][NextReset]_vars

\* colours: loads, clicks, the colour picker and the colour settings
NextColor ==
  \/ \E g \in FilterGraphs : Reload(g)
  \/ InitSimulation
  \/ \E d \in NodeIds(nodes) : dragstarted(d)
  \/ dragended
  \/ \E shiftKey \in BOOLEAN : handleNodeClick(shiftKey)
  \/ \E colorScheme \in ColorSchemes, communityDetection \in Detections :
       SetColorScheme(colorScheme, communityDetection)
  \/ \E nodeIndex \in DOMAIN nodes, newColor \in PickerColors :
       handleNodeColorChange(nodeIndex, newColor)

SpecColor == Init /\ [][NextColor]_vars

\* the graphs of the scenario about the settings panel
SettingsGraphs == { 3, 5 }

\* the settings panel at work on a laid-out graph: physics sliders, colour
\* scheme and community mode between loads, ticks and clicks
NextSettings ==
  \/ \E g \in SettingsGraphs : Reload(g)
  \/ InitSimulation
  \/ Tick
  \/ UpdateSettings
  \/ \E colorScheme \in ColorSchemes, communityDetection \in Detections :
       SetColorScheme(colorScheme, communityDetection)
  \/ \E d \in NodeIds(nodes) : dragstarted(d)
  \/ dragended
  \/ \E shiftKey \in BOOLEAN : handleNodeClick(shiftKey)

SpecSettings == Init /\ [][NextSettings]_vars

\* the edge filter: loads, filter changes and highlights
NextFilter ==
  \/ \E g \in FilterGraphs : Reload(g)
  \/ InitSimulation
  \/ \E range \in FilterRanges : SetEdgeFilterRange(range)
  \/ \E k \in 0..MaxPathLen : highlightPath(EdgeTypes(k))

SpecFilter == Init /\ [][NextFilter]_vars

-----------------------------------------------------------------------------
(* graphUtils.ts: findRandomPath, one step at a time.  A recursive retry   *)
(* is a restart of the same activation with the restart counted.           *)

\* the call: the guard, then the adjacency list
FRPCall(length) ==
  /\ frp.pc = "idle"
  /\ frp' = IF length <= 0 \/ Len(links) = 0 \/ Len(nodes) = 0
            THEN [FrpIdle EXCEPT !.pc = "done", !.length = length,
                                 !.result = NullPath]
            ELSE [FrpIdle EXCEPT !.pc = "start", !.length = length]
  /\ UNCHANGED << nodes, links, graph, simReady, simulationRef, keys, anchors,
                  dragStartPositions, drag, call, settings, rendering, lastOp, dragOrigin, energy,
                  edgeRelevanceFilter >>

\* nodes[Math.floor(Math.random() * nodes.length)]
FRPStart(startNodeIdx) ==
  /\ frp.pc = "start"
  /\ frp' = [frp EXCEPT !.pc = IF frp.length > 0 THEN "loop" ELSE "check",
                        !.i = 0, !.path = << >>,
                        !.currentNodeId = nodes[startNodeIdx].id]
  /\ UNCHANGED << nodes, links, graph, simReady, simulationRef, keys, anchors,
                  dragStartPositions, drag, call, settings, rendering, lastOp, dragOrigin, energy,
                  edgeRelevanceFilter >>

\* an iteration of the for loop with a neighbour to go to
FRPStep(nextNodeId) ==
  /\ frp.pc = "loop"
  /\ nextNodeId \in Neighbors(buildAdjacencyList(nodes, links), frp.currentNodeId)
  /\ LET edge == FindEdge(links, frp.currentNodeId, nextNodeId) IN
     frp' = IF edge = 0 THEN [frp EXCEPT !.pc = "check"]
            ELSE [frp EXCEPT !.path = Append(@, edge),
                             !.currentNodeId = nextNodeId,
                             !.i = @ + 1,
                             !.pc = IF frp.i + 1 < frp.length THEN "loop"
                                    ELSE "check"]
  /\ UNCHANGED << nodes, links, graph, simReady, simulationRef, keys, anchors,
                  dragStartPositions, drag, call, settings, rendering, lastOp, dragOrigin, energy,
                  edgeRelevanceFilter >>

\* an iteration with no neighbour: retry on the first edge, else break
FRPNoNeighbors ==
  /\ frp.pc = "loop"
  /\ Neighbors(buildAdjacencyList(nodes, links), frp.currentNodeId) = {}
  /\ IF frp.i = 0
     THEN /\ frp.restarts < MaxRestarts
          /\ frp' = [frp EXCEPT !.pc = "start", !.restarts = @ + 1]
     ELSE frp' = [frp EXCEPT !.pc = "check"]
  /\ UNCHANGED << nodes, links, graph, simReady, simulationRef, keys, anchors,
                  dragStartPositions, drag, call, settings, rendering, lastOp, dragOrigin, energy,
                  edgeRelevanceFilter >>

\* after the loop: retry when the path is short, else return it
FRPCheck ==
  /\ frp.pc = "check"
  /\ IF Len(frp.path) < frp.length
     THEN /\ frp.restarts < MaxRestarts
          /\ frp' = [frp EXCEPT !.pc = "start", !.restarts = @ + 1]
     ELSE frp' = [frp EXCEPT !.pc = "done", !.result = frp.path]
  /\ UNCHANGED << nodes, links, graph, simReady, simulationRef, keys, anchors,
                  dragStartPositions, drag, call, settings, rendering, lastOp, dragOrigin, energy,
                  edgeRelevanceFilter >>

\* the caller takes the result
FRPReturn ==
  /\ frp.pc = "done"
  /\ frp' = FrpIdle
  /\ UNCHANGED << nodes, links, graph, simReady, simulationRef, keys, anchors,
                  dragStartPositions, drag, call, settings, rendering, lastOp, dragOrigin, energy,
                  edgeRelevanceFilter >>

\* one of the graphs G is loaded and laid out
InitLoaded(G) ==
  /\ \E g \in G :
       /\ graph = g
       /\ nodes = [i \in 1..Len(RawGraphs[g].nodes) |->
                     InitializeNode(TransformNodes(RawGraphs[g], << >>)[i], i)]
       /\ links = TransformLinks(RawGraphs[g], << >>)
  \* the init effect builds no simulation for a graph without nodes
  /\ simReady = (Len(nodes) # 0)
  /\ simulationRef = IF Len(nodes) # 0 THEN "running" ELSE "null"
  /\ alpha = IF Len(nodes) # 0 THEN 50 ELSE 0
  /\ alphaTarget = 0
  /\ neighborhoodSelection = [sourceNodeId |-> NullId, currentDepth |-> 0]
  /\ exactLayerSelection = [sourceNodeId |-> NullId, currentLayer |-> 0]
  /\ isSpacePressed = FALSE
  /\ isNPressed = FALSE
  /\ isMPressed = FALSE
  /\ dragStartPositions = EmptyMap
  /\ drag = NoDrag
  /\ frp = FrpIdle
  /\ call = NoCall
  /\ settings = DefaultSettings
  /\ edgeFilterRange = FullRange
  /\ prevEdgeFilterRef = FullRange
  /\ linksRef = RenderLinks(links, FullRange)
  /\ lastOp = Op("none", NullId, 0, << >>, {})
  /\ dragOrigin = EmptyMap
  /\ edgeRelevanceFilter = InitialFilter

\* a graph is loaded and laid out; the search is called on its nodes and links
InitPath == InitLoaded(GraphIds)

NextPath ==
  \/ \E length \in 0..MaxPathLen : FRPCall(length)
  \/ \E startNodeIdx \in DOMAIN nodes : FRPStart(startNodeIdx)
  \/ \E nextNodeId \in NodeIds(nodes) : FRPStep(nextNodeId)
  \/ FRPNoNeighbors
  \/ FRPCheck
  \/ FRPReturn

SpecPath == InitPath /\ [][NextPath]_vars

-----------------------------------------------------------------------------
(* The helpers of graphUtils.ts called on the loaded graph *)

Algorithms == { "louvain", "girvan-newman", "label" }

\* ids a caller can pass: the ids of the raw graphs, present or not
AnyIds == { "a", "b", "cc", "zz" }

Called(fn, args, threw, result) ==
  /\ call' = [fn |-> fn, args |-> args, threw |-> threw, result |-> result]
  /\ UNCHANGED << nodes, links, graph, simReady, simulationRef, keys, anchors,
                  dragStartPositions, drag, frp, settings, rendering, lastOp, dragOrigin, energy,
                  edgeRelevanceFilter >>

CallBuildAdjacencyList ==
  Called("buildAdjacencyList", << >>, FALSE, buildAdjacencyList(nodes, links))

CallFindNodesAtDepths(startNodeId, maxDepth) ==
  Called("findNodesAtDepths", << startNodeId, maxDepth >>, FALSE,
         findNodesAtDepths(startNodeId, maxDepth,
                           buildAdjacencyList(nodes, links)))

CallGetShortestPathDistance(startId, endId) ==
  Called("getShortestPathDistance", << startId, endId >>, FALSE,
         getShortestPathDistance(startId, endId,
                                 buildAdjacencyList(nodes, links)))

\* a call that returns: one of the paths the random choices can give
CallFindRandomPath(length) ==
  \E path \in findRandomPathResults(length, nodes, links) :
    Called("findRandomPath", << length >>, FALSE, path)

CallDetectCommunities(algorithm) ==
  LET r == detectCommunities(nodes, algorithm, links)
  IN Called("detectCommunities", << algorithm >>, r.threw, r.communities)

NextHelpers ==
  \/ CallBuildAdjacencyList
  \/ \E startNodeId \in AnyIds, maxDepth \in 0..MaxDepth :
       CallFindNodesAtDepths(startNodeId, maxDepth)
  \/ \E startId \in AnyIds, endId \in AnyIds :
       CallGetShortestPathDistance(startId, endId)
  \/ \E length \in 0..MaxPathLen : CallFindRandomPath(length)
  \/ \E algorithm \in Algorithms : CallDetectCommunities(algorithm)

SpecHelpers == InitPath /\ [][NextHelpers]_vars

\* ids a caller asks distances for in the graphs of CommunityGraphs
CommunityIds == { "a", "b", "cc", "Dd", "e", "n7", "m2", "m3", "m41" }

\* community detection and the distances it is built on, called on a loaded
\* graph
NextCommunities ==
  \/ CallBuildAdjacencyList
  \/ \E startId \in CommunityIds, endId \in CommunityIds :
       CallGetShortestPathDistance(startId, endId)
  \/ \E algorithm \in Algorithms : CallDetectCommunities(algorithm)

InitCommunities == InitLoaded(CommunityGraphs)

SpecCommunities == InitCommunities /\ [][NextCommunities]_vars

\* transformGraphData called on a raw graph and the current nodes
CallTransformGraphData(g, oldVelocity) ==
  Called("transformGraphData", << g, oldVelocity >>, FALSE,
         [nodes |-> TransformNodes(RawGraphs[g], nodes),
          vx |-> [i \in 1..Len(RawGraphs[g].nodes) |->
                    NewNodeVelocity(RawGraphs[g].nodes[i], nodes, oldVelocity)]])

\* graphs that lose and regain nodes between neighbourhood clicks
NextRebuild ==
  \/ \E g \in FilterGraphs : Reload(g)
  \/ InitSimulation
  \/ KeyDown("KeyN")
  \/ \E d \in NodeIds(nodes) : dragstarted(d)
  \/ dragended
  \/ handleNodeClick(FALSE)
  \/ \E g \in FilterGraphs, oldVelocity \in { Undefined, 1 } :
       CallTransformGraphData(g, oldVelocity)

SpecRebuild == Init /\ [][NextRebuild]_vars

\* clicks in every mode, background clicks and path highlights on a
\* simulation that ticks and cools down between them
NextHeat ==
  \/ \E g \in DragGraphs : Reload(g)
  \/ InitSimulation
  \/ Tick
  \/ \E code \in { "KeyN", "KeyM" } : KeyDown(code)
  \/ \E d \in NodeIds(nodes) : dragstarted(d)
  \/ dragended
  \/ \E shiftKey \in BOOLEAN : handleNodeClick(shiftKey)
  \/ \E shiftKey \in BOOLEAN : svgClick(shiftKey)
  \/ \E k \in 0..MaxPathLen : highlightPath(EdgeTypes(k))

SpecHeat == Init /\ [][NextHeat]_vars

\* the clauses and entity examples the host hands to highlightPath: no
\* clauses, fewer clauses than edges, an entity without example, an empty
\* example
ClauseLists ==
  { << >>,
    << [entity1 |-> "E1", relation |-> "r", entity2 |-> "E2"] >>,
    << [entity1 |-> "E1", relation |-> "r", entity2 |-> "E2"],
       [entity1 |-> "E2", relation |-> "r", entity2 |-> "E3"] >> }

ExampleMaps ==
  { NoExamples,
    [given |-> TRUE, of |-> [e \in { "E1", "E2" } |-> IF e = "E1" THEN "ex1" ELSE ""]],
    [given |-> TRUE, of |-> [e \in { "E2", "E3" } |-> IF e = "E2" THEN "ex2" ELSE "ex3"]] }

\* highlights with clauses and examples, resets, deselections and reloads
NextTooltip ==
  \/ \E g \in FilterGraphs : Reload(g)
  \/ InitSimulation
  \/ \E k \in 0..MaxPathLen, clauses \in ClauseLists, entityExamples \in ExampleMaps :
       highlightPathWith(EdgeTypes(k), clauses, entityExamples)
  \/ resetHighlighting
  \/ \E shiftKey \in BOOLEAN : svgClick(shiftKey)

SpecTooltip == Init /\ [][NextTooltip]_vars

\* the handles of the edge relevance filter grabbed, moved and released over
\* a loaded graph
NextWidget ==
  \/ \E g \in FilterGraphs : Reload(g)
  \/ InitSimulation
  \/ \E handle \in { "min", "max" } : FilterMouseDown(handle)
  \/ \E x \in MouseXs : handleMouseMove(x)
  \/ handleMouseUp

SpecWidget == Init /\ [][NextWidget]_vars

\* drags and reheats on a simulation whose timer fires as long as it runs
NextCool ==
  \/ \E g \in DragGraphs : Reload(g)
  \/ InitSimulation
  \/ Tick
  \/ \E d \in NodeIds(nodes) : dragstarted(d)
  \/ dragended
  \/ svgClick(TRUE)

\* d3's timer calls the tick on every animation frame while the simulation
\* runs
SpecCool == Init /\ [][NextCool]_vars /\ WF_vars(Tick)

-----------------------------------------------------------------------------
(* GraphRenderer.tsx: fitGraphToView.  A number that need not be an integer *)
(* is a pair << numerator, denominator >>; NaN is the pair << 0, 0 >>.      *)

NaN == << 0, 0 >>

IsNaN(q) == q[2] = 0

\* a < b for two fractions with positive denominators
RatLess(a, b) == a[1] * b[2] < b[1] * a[2]

RatMin(a, b) == IF RatLess(b, a) THEN b ELSE a

\* const padding = 40
Padding == 40

\* the width and height props, and the nodeRadius every node carries as r
Viewports == { << 800, 600 >>, << 90, 900 >> }

Radii == { 8 }

\* `return;` of a function: no transform
NoTransform == [transform |-> FALSE, k |-> << 0, 1 >>, x |-> << 0, 1 >>,
                y |-> << 0, 1 >>]

\* d3.zoomIdentity.translate(width/2, height/2).scale(scale)
\*   .translate(-centerX, -centerY): k = scale, x = width/2 - scale * centerX
fitGraphToView(ns, r, width, height) ==
  IF Len(ns) = 0 THEN NoTransform
  ELSE
    LET placed == { i \in DOMAIN ns : ns[i].x # Undefined /\ ns[i].y # Undefined }
    IN IF placed = {}
       \* min stays Infinity and max -Infinity: graphWidth = -Infinity, the
       \* scale is width / -Infinity = -0 and the centre is NaN
       THEN [transform |-> TRUE, k |-> << 0, 1 >>, x |-> NaN, y |-> NaN]
       ELSE
         LET minX == SetMin({ OrZero(ns[i].x) - r : i \in placed }) - Padding
             minY == SetMin({ OrZero(ns[i].y) - r : i \in placed }) - Padding
             maxX == SetMax({ OrZero(ns[i].x) + r : i \in placed }) + Padding
             maxY == SetMax({ OrZero(ns[i].y) + r : i \in placed }) + Padding
             scaleX == << width, maxX - minX >>
             scaleY == << height, maxY - minY >>
             scale == RatMin(RatMin(scaleX, scaleY), << 2, 1 >>)
         IN [transform |-> TRUE, k |-> scale,
             x |-> << (width * scale[2]) - (scale[1] * (minX + maxX)),
                      2 * scale[2] >>,
             y |-> << (height * scale[2]) - (scale[1] * (minY + maxY)),
                      2 * scale[2] >>]

\* the computation applied to the node list as it stands
CallFitGraphToView(r, width, height) ==
  Called("fitGraphToView", << r, width, height >>, FALSE,
         fitGraphToView(nodes, r, width, height))

NextFit ==
  \/ \E g \in GraphIds : Reload(g)
  \/ InitSimulation
  \/ \E d \in NodeIds(nodes) : dragstarted(d)
  \/ \E pt \in Points : dragged(pt)
  \/ dragended
  \/ \E r \in Radii, v \in Viewports : CallFitGraphToView(r, v[1], v[2])

SpecFit == Init /\ [][NextFit]_vars

-----------------------------------------------------------------------------
(* Properties *)

\* the ids joined to a member of S by a link, in either direction
Adjacent(ls, S) ==
  { ls[k].target : k \in { j \in DOMAIN ls : ls[j].source \in S } }
  \cup { ls[k].source : k \in { j \in DOMAIN ls : ls[j].target \in S } }

\* the ids within k hops of src
RECURSIVE Ball(_, _, _)
Ball(ls, src, k) ==
  IF k <= 0 THEN { src }
  ELSE Ball(ls, src, k - 1) \cup Adjacent(ls, Ball(ls, src, k - 1))

\* the ids at BFS distance exactly k from src
Layer(ls, src, k) ==
  IF k <= 0 THEN { src } ELSE Ball(ls, src, k) \ Ball(ls, src, k - 1)

HighlightedLinks == { k \in DOMAIN links : links[k].isHighlighted }

\* two links share an end node
Touch(l1, l2) == { l1.source, l1.target } \cap { l2.source, l2.target } # {}

\* C1: once an interaction has completed (no gesture in progress), a node
\* has a fixed position (fx, fy) exactly when it is selected
C1_FixedIffSelected ==
  drag.phase = "idle" =>
    \A i \in DOMAIN nodes : IsPinned(nodes[i]) <=> nodes[i].isSelected

\* C2: a neighbourhood click on N at depth d + 1 that directly follows the
\* neighbourhood click on N at depth d keeps every node selected and newly
\* selects exactly the nodes at distance d + 1 that were not selected yet
C2_NeighborhoodGrows ==
  [][ (handleNodeClick(FALSE) /\ lastOp.kind = "nbr" /\ lastOp'.kind = "nbr"
       /\ lastOp'.node = lastOp.node /\ lastOp'.n = lastOp.n + 1)
      => /\ lastOp.sel \subseteq SelectedIds(nodes')
         /\ SelectedIds(nodes') \ lastOp.sel
              = Layer(links, lastOp.node, lastOp.n + 1) \ lastOp.sel ]_vars

\* C2 as stated: the nodes newly selected by the second click are exactly
\* the nodes at distance d + 1
C2_NewAreExactlyNextLayer ==
  [][ (handleNodeClick(FALSE) /\ lastOp.kind = "nbr" /\ lastOp'.kind = "nbr"
       /\ lastOp'.node = lastOp.node /\ lastOp'.n = lastOp.n + 1)
      => /\ lastOp.sel \subseteq SelectedIds(nodes')
         /\ SelectedIds(nodes') \ lastOp.sel
              = Layer(links, lastOp.node, lastOp.n + 1) ]_vars

\* the second neighbourhood click on a in the path graph has selected cc
C2_Witness ==
  /\ graph = 1
  /\ drag.phase = "idle"
  /\ lastOp.kind = "nbr" /\ lastOp.node = "a" /\ lastOp.n = 2
  /\ neighborhoodSelection = [sourceNodeId |-> "a", currentDepth |-> 2]
  /\ SelectedIds(nodes) = { "a", "b", "cc" }

\* C3: after an exact-layer click on N that gives layer k, the selected
\* nodes other than N are the nodes at distance k, and every other node is
\* deselected and has no fixed position
C3_ExactLayerOnly ==
  (lastOp.kind = "layer" /\ drag.phase = "idle") =>
    /\ SelectedIds(nodes) \ { lastOp.node } = Layer(links, lastOp.node, lastOp.n)
    /\ \A i \in DOMAIN nodes :
         (nodes[i].id # lastOp.node
          /\ nodes[i].id \notin Layer(links, lastOp.node, lastOp.n))
         => ~nodes[i].isSelected /\ ~IsPinned(nodes[i])

\* C4: a drag move of D with space held puts every other selected node that
\* has a captured start position at its position when the drag began plus
\* (pointer - D's position when the drag began)
C4_GroupFollowsFromStart ==
  [][ \A pt \in Points :
        (dragged(pt) /\ isSpacePressed
         /\ drag.node \in DOMAIN dragStartPositions
         /\ drag.node \in DOMAIN dragOrigin)
        => \A j \in DOMAIN nodes :
             (nodes[j].id # drag.node /\ nodes[j].isSelected
              /\ nodes[j].id \in DOMAIN dragStartPositions
              /\ nodes[j].id \in DOMAIN dragOrigin)
             => /\ nodes'[j].fx = dragOrigin[nodes[j].id][1]
                                  + (pt[1] - dragOrigin[drag.node][1])
                /\ nodes'[j].fy = dragOrigin[nodes[j].id][2]
                                  + (pt[2] - dragOrigin[drag.node][2]) ]_vars

\* C5: after a highlight of k edge types that found a path, exactly k links
\* are highlighted, and each link of the path shares an end with the next
C5_HighlightsKEdges ==
  lastOp.kind = "highlight" =>
    /\ Cardinality(HighlightedLinks) = lastOp.n
    /\ \A i \in 1..(Len(lastOp.path) - 1) :
         Touch(links[lastOp.path[i]], links[lastOp.path[i + 1]])

\* C6: a rebuild from a raw graph with the node ids of the current nodes
\* gives, for every selected node, a selected node with the same fx, fy, x, y
C6_ReloadKeepsSelected ==
  [][ \A g \in GraphIds :
        (Reload(g) /\ NodeIds(nodes) = NodeIds(RawGraphs[g].nodes))
        => \A i \in DOMAIN nodes :
             nodes[i].isSelected =>
               \E j \in DOMAIN nodes' :
                 /\ nodes'[j].id = nodes[i].id
                 /\ nodes'[j].isSelected
                 /\ nodes'[j].fx = nodes[i].fx /\ nodes'[j].fy = nodes[i].fy
                 /\ nodes'[j].x = nodes[i].x /\ nodes'[j].y = nodes[i].y ]_vars

\* a graph with the ids a, b, cc was rebuilt while cc was selected; cc is
\* still selected and fixed
C6_Witness ==
  /\ lastOp.kind = "reload" /\ "cc" \in lastOp.sel
  /\ ~simReady
  /\ Len(nodes) = 3
  /\ \E j \in DOMAIN nodes :
       nodes[j].id = "cc" /\ nodes[j].isSelected /\ IsPinned(nodes[j])

ResolvableEdges(g) ==
  SelectSeq(g.edges,
            LAMBDA e : e.source \in NodeIds(g.nodes) /\ e.target \in NodeIds(g.nodes))

\* C8: the links are the raw edges with both ends among the raw nodes, in
\* the raw order, each end a node of the model
C8_LinksAreResolvableEdges ==
  graph # 0 =>
    /\ [k \in DOMAIN links |->
          RawEdge(links[k].source, links[k].target, links[k].type)]
         = ResolvableEdges(RawGraphs[graph])
    /\ \A k \in DOMAIN links :
         links[k].source \in NodeIds(nodes) /\ links[k].target \in NodeIds(nodes)

\* the graph with a dangling edge is loaded: two of its three edges are links
C8_Witness ==
  /\ graph = 3
  /\ Len(RawGraphs[graph].edges) = 3
  /\ Len(links) = 2

C10_RestartsCapped == frp.restarts < MaxRestarts

\* C11: a highlight that finds no path leaves no node and no link
\* highlighted and no node with tooltip text, and changes no node's
\* isSelected, fx, fy
C11_NoPathClearsHighlights ==
  [][ \A k \in 0..MaxPathLen :
        (highlightPath(EdgeTypes(k)) /\ lastOp'.kind = "nohighlight")
        => /\ \A j \in DOMAIN nodes' :
                ~nodes'[j].isHighlighted /\ nodes'[j].tooltipText = UndefinedText
           /\ \A l \in DOMAIN links' : ~links'[l].isHighlighted
           /\ \A j \in DOMAIN nodes :
                /\ nodes'[j].isSelected = nodes[j].isSelected
                /\ nodes'[j].fx = nodes[j].fx
                /\ nodes'[j].fy = nodes[j].fy ]_vars

\* C12: a simulation stopped by the teardown stays stopped until a new
\* simulation is built: no settings update, colour change or highlight
\* starts its timer again
C12_StoppedStaysStopped ==
  [][ (simulationRef = "stopped" /\ ~InitSimulation)
      => simulationRef' = "stopped" ]_vars

\* C13: on a graph with no node and no link every helper (buildAdjacencyList,
\* findNodesAtDepths, getShortestPathDistance, findRandomPath and
\* detectCommunities with any algorithm name) returns without throwing
C13_EmptyGraphNeverThrows ==
  (call.fn # "none" /\ Len(nodes) = 0 /\ Len(links) = 0) => ~call.threw

C15_GrayIffOutOfRange ==
  [][ /\ \A range \in FilterRanges : SetEdgeFilterRange(range) => links' = links
      /\ simReady'
         => \A k \in DOMAIN links' :
              ~links'[k].isHighlighted
              => ((linksRef'[k].stroke = "#cccccc"
                   /\ linksRef'[k].strokeOpacity = 30)
                  <=> OutOfRange(links'[k], edgeFilterRange')) ]_vars

\* C16: resetHighlighting leaves every node and link with isHighlighted false,
\* every tooltipText and highlightLabel cleared, and every node's isSelected,
\* fx and fy as they were; a second reset right after a reset changes nothing
C16_ResetFrameAndIdempotent ==
  [][ resetHighlighting
      => /\ \A j \in DOMAIN nodes' :
              /\ ~nodes'[j].isHighlighted
              /\ nodes'[j].tooltipText = UndefinedText
              /\ nodes'[j].isSelected = nodes[j].isSelected
              /\ nodes'[j].fx = nodes[j].fx
              /\ nodes'[j].fy = nodes[j].fy
         /\ \A k \in DOMAIN links' :
              /\ ~links'[k].isHighlighted
              /\ links'[k].highlightLabel = UndefinedText
         /\ lastOp.kind = "reset"
            => << nodes', links', linksRef' >> = << nodes, links, linksRef >> ]_vars

\* a reset has cleared a highlighted path and a selected, pinned node is left
C16_Witness ==
  /\ lastOp.kind = "reset"
  /\ lastOp.n > 0
  /\ \E j \in DOMAIN nodes : nodes[j].isSelected /\ IsPinned(nodes[j])
  /\ \A k \in DOMAIN links : ~links[k].isHighlighted

\* C17: when the colour scheme "default" is applied, a node whose colour was
\* picked with the colour picker keeps that colour and every other node gets
\* the default colour
C17_DefaultKeepsManualColors ==
  [][ \A communityDetection \in Detections :
        (SetColorScheme("default", communityDetection) /\ Len(nodes) # 0)
        => \A j \in DOMAIN nodes :
             IF nodes[j].color \in PickerColors
             THEN nodes'[j].color = nodes[j].color
             ELSE nodes'[j].color = DefaultColor ]_vars

\* C18: a shift+click on the background leaves every node not selected and
\* not pinned (fx and fy null) and both anchors at {sourceNodeId: null, 0}
C18_BackgroundShiftClickClears ==
  [][ svgClick(TRUE)
      => /\ \A j \in DOMAIN nodes' :
              /\ ~nodes'[j].isSelected
              /\ nodes'[j].fx = Null
              /\ nodes'[j].fy = Null
         /\ neighborhoodSelection' = [sourceNodeId |-> NullId, currentDepth |-> 0]
         /\ exactLayerSelection' = [sourceNodeId |-> NullId, currentLayer |-> 0]
     ]_vars

\* the background was shift+clicked while nodes were selected
C18_Witness ==
  /\ lastOp.kind = "bg"
  /\ lastOp.n > 1
  /\ \A j \in DOMAIN nodes : ~nodes[j].isSelected /\ ~IsPinned(nodes[j])
  /\ neighborhoodSelection.sourceNodeId = NullId
  /\ exactLayerSelection.sourceNodeId = NullId

\* C19: a shift+click on node X sets the depth of the neighbourhood anchor to
\* 0 if X is its source and the layer of the exact-layer anchor to 0 if X is
\* its source; the next neighbourhood click on X then selects depth 1 and the
\* next exact-layer click on X selects layer 1
C19_ShiftClickResetsAnchors ==
  [][ /\ handleNodeClick(TRUE)
         => /\ neighborhoodSelection.sourceNodeId = drag.node
               => neighborhoodSelection'.currentDepth = 0
            /\ exactLayerSelection.sourceNodeId = drag.node
               => exactLayerSelection'.currentLayer = 0
      /\ (handleNodeClick(FALSE) /\ lastOp.kind = "shift"
          /\ lastOp.node = drag.node)
         => /\ isNPressed
               => neighborhoodSelection'
                    = [sourceNodeId |-> drag.node, currentDepth |-> 1]
            /\ (~isNPressed /\ isMPressed)
               => exactLayerSelection'
                    = [sourceNodeId |-> drag.node, currentLayer |-> 1] ]_vars

\* C20: a neighbourhood click on N sets the anchor to {N, 1} if N is not
\* selected or is not the anchor's source, and otherwise adds exactly 1 to
\* currentDepth; so the first click after a reset anchor gives depth 1, the
\* click that directly follows the click of depth k on N gives depth k + 1,
\* and N with every node within currentDepth hops of N is selected
C20_NeighborhoodClickDepth ==
  [][ (handleNodeClick(FALSE) /\ isNPressed)
      => /\ neighborhoodSelection'
              = IF ~IsSelectedId(nodes, drag.node)
                   \/ neighborhoodSelection.sourceNodeId # drag.node
                THEN [sourceNodeId |-> drag.node, currentDepth |-> 1]
                ELSE [sourceNodeId |-> drag.node,
                      currentDepth |-> neighborhoodSelection.currentDepth + 1]
         /\ neighborhoodSelection.currentDepth = 0
            => neighborhoodSelection'.currentDepth = 1
         /\ (lastOp.kind = "nbr" /\ lastOp.node = drag.node)
            => neighborhoodSelection'.currentDepth = lastOp.n + 1
         /\ Ball(links, drag.node, neighborhoodSelection'.currentDepth)
              \subseteq SelectedIds(nodes') ]_vars

\* the second of two consecutive neighbourhood clicks on the end of the path
\* a - b - cc has selected the nodes within two hops
C20_Witness ==
  /\ graph = 1
  /\ lastOp.kind = "nbr" /\ lastOp.node = "cc" /\ lastOp.n = 2
  /\ neighborhoodSelection = [sourceNodeId |-> "cc", currentDepth |-> 2]
  /\ { "a", "b", "cc" } \subseteq SelectedIds(nodes)

\* C21: whenever an interaction deselects the source node of the
\* neighbourhood anchor (a shift+click on it, a deselect-all, an exact-layer
\* selection around another node), the anchor is reset, so that the next
\* neighbourhood click on that node starts again at depth 1 although the drag
\* start has selected the node again before the click is handled
C21_DeselectResetsNeighborhoodAnchor ==
  [][ LET s == neighborhoodSelection.sourceNodeId
      IN (/\ s \in NodeIds(nodes) /\ s \in NodeIds(nodes')
          /\ IsSelectedId(nodes, s) /\ ~IsSelectedId(nodes', s))
         => \/ neighborhoodSelection'.sourceNodeId # s
            \/ neighborhoodSelection'.currentDepth = 0 ]_vars

\* C22: a neighbourhood selection leaves fx and fy of every node that is
\* already pinned as they are, and pins every node it newly selects (also one
\* that was deselected before) at its current position x, y
C22_NeighborhoodPinsNewNodes ==
  [][ (handleNodeClick(FALSE) /\ isNPressed)
      => \A j \in DOMAIN nodes :
           /\ IsPinned(nodes[j])
              => nodes'[j].fx = nodes[j].fx /\ nodes'[j].fy = nodes[j].fy
           /\ (~nodes[j].isSelected /\ nodes'[j].isSelected)
              => nodes'[j].fx = nodes[j].x /\ nodes'[j].fy = nodes[j].y ]_vars

\* C23: after every drag end on D, D is selected and pinned at the drop
\* point and the map of start positions is empty, whenever space was pressed
\* or released; a later drag that moves the group uses only the start
\* positions captured when it began
C23_DragEndClearsStartPositions ==
  [][ /\ dragended
         => /\ \A j \in DOMAIN nodes' :
                 nodes'[j].id = drag.node
                 => /\ nodes'[j].isSelected
                    /\ nodes'[j].fx = drag.cur[1] /\ nodes'[j].fy = drag.cur[2]
            /\ dragStartPositions' = EmptyMap
      /\ \A pt \in Points :
           (dragged(pt) /\ isSpacePressed /\ drag.node \in DOMAIN dragStartPositions)
           => dragStartPositions = dragOrigin ]_vars

\* C24: a drag move on D while space is not held changes fx and fy of D
\* only: every other node, every other field of D and both anchors stay as
\* they are
C24_PlainDragMovesOnlyD ==
  [][ \A pt \in Points :
        (dragged(pt) /\ ~isSpacePressed)
        => /\ \A j \in DOMAIN nodes :
                IF nodes[j].id = drag.node
                THEN nodes'[j] = [nodes[j] EXCEPT !.fx = pt[1], !.fy = pt[2]]
                ELSE nodes'[j] = nodes[j]
           /\ neighborhoodSelection' = neighborhoodSelection
           /\ exactLayerSelection' = exactLayerSelection ]_vars

\* D has been moved without space while another node is selected and pinned
\* somewhere else than the pointer
C24_Witness ==
  /\ drag.phase = "active" /\ drag.moved
  /\ lastOp.kind = "drag" /\ lastOp.n = 0
  /\ \E i, j \in DOMAIN nodes :
       /\ nodes[i].id = drag.node /\ nodes[j].id # drag.node
       /\ << nodes[i].fx, nodes[i].fy >> = drag.cur
       /\ << nodes[i].fx, nodes[i].fy >> # << nodes[i].x, nodes[i].y >>
       /\ nodes[j].isSelected /\ IsPinned(nodes[j])
       /\ << nodes[j].fx, nodes[j].fy >> # drag.cur

\* C25: after a highlight that found a path, the i-th edge of the path is
\* highlighted and labelled with the i-th edge type, for every i, and both
\* end nodes of every path edge are highlighted, selected and pinned at their
\* current position
C25_HighlightLabelsEveryPathEdge ==
  [][ \A k \in 0..MaxPathLen :
        (highlightPath(EdgeTypes(k)) /\ lastOp'.kind = "highlight")
        => \A i \in DOMAIN lastOp'.path :
             LET edge == links'[lastOp'.path[i]]
             IN /\ edge.isHighlighted
                /\ edge.highlightLabel = EdgeTypes(k)[i]
                /\ \A j \in DOMAIN nodes' :
                     nodes'[j].id \in { edge.source, edge.target }
                     => /\ nodes'[j].isHighlighted /\ nodes'[j].isSelected
                        /\ nodes'[j].fx = nodes'[j].x
                        /\ nodes'[j].fy = nodes'[j].y ]_vars

\* C26: after every highlight call, whatever its edge types, the highlighted
\* links are exactly the links of the path that call found and the
\* highlighted nodes exactly their end nodes; nothing is highlighted when the
\* call found no path
C26_HighlightedIsLatestPath ==
  [][ \A k \in 0..MaxPathLen :
        highlightPath(EdgeTypes(k))
        => LET found == IF lastOp'.kind = "highlight"
                        THEN { lastOp'.path[i] : i \in DOMAIN lastOp'.path }
                        ELSE {}
               ends == UNION { { links'[l].source, links'[l].target } : l \in found }
           IN /\ { l \in DOMAIN links' : links'[l].isHighlighted } = found
              /\ { nodes'[j].id : j \in { i \in DOMAIN nodes' : nodes'[i].isHighlighted } }
                 = ends \cap NodeIds(nodes') ]_vars

\* C27: a settings change on an unchanged graph (physics parameters, colour
\* scheme, community mode) is applied to the live simulation: the simulation
\* is neither torn down nor built anew, and no node changes its position, its
\* isSelected or its fx, fy
C27_SettingsAppliedInPlace ==
  [][ (\/ UpdateSettings
       \/ \E colorScheme \in ColorSchemes, communityDetection \in Detections :
            SetColorScheme(colorScheme, communityDetection))
      => /\ simReady' = simReady
         /\ simulationRef' = "stopped" => simulationRef = "stopped"
         /\ \A j \in DOMAIN nodes :
              /\ nodes'[j].x = nodes[j].x /\ nodes'[j].y = nodes[j].y
              /\ nodes'[j].isSelected = nodes[j].isSelected
              /\ nodes'[j].fx = nodes[j].fx /\ nodes'[j].fy = nodes[j].fy ]_vars

\* the ids within k steps of src along the entries of an adjacency map
RECURSIVE AdjBall(_, _, _)
AdjBall(adjList, src, k) ==
  IF k <= 0 THEN { src }
  ELSE LET inner == AdjBall(adjList, src, k - 1)
       IN inner \cup UNION { Neighbors(adjList, v) : v \in inner }

\* C28: for the adjacency map of the graph, a start id s and a maxDepth m,
\* findNodesAtDepths returns for every depth k in 1..m exactly the ids at
\* distance k from s; the sets of two depths share no id and s is in none
\* of the depths 1..m
C28_DepthsAreDistanceLayers ==
  call.fn = "findNodesAtDepths"
  => LET s == call.args[1]
         m == call.args[2]
         adjList == buildAdjacencyList(nodes, links)
     IN /\ DOMAIN call.result = 0..m
        /\ \A k \in 1..m :
             /\ call.result[k] = AdjBall(adjList, s, k) \ AdjBall(adjList, s, k - 1)
             /\ s \notin call.result[k]
        /\ \A k1, k2 \in 1..m :
             k1 # k2 => call.result[k1] \cap call.result[k2] = {}

\* a call with maxDepth 2 that found nodes at depth 1 and at depth 2, in a
\* graph where the start node is a neighbour of a node at depth 1
C28_Witness ==
  /\ call.fn = "findNodesAtDepths" /\ call.args[2] = 2
  /\ call.result[1] # {} /\ call.result[2] # {}
  /\ \E v \in call.result[1] :
       call.args[1] \in Neighbors(buildAdjacencyList(nodes, links), v)

\* the seeds of the girvan-newman mode as the claim gives them: the ids at
\* the 0-based array positions floor(i * n / s), s = min(10, max(3, floor(n / 20)))
SeedsOf(ns) ==
  LET n == Len(ns)
      s == IF n \div 20 > 10 THEN 10 ELSE IF n \div 20 < 3 THEN 3 ELSE n \div 20
  IN [k \in 1..s |-> ns[((k - 1) * n) \div s + 1].id]

\* the least k with b within k steps of the ids of ball, which are within
\* k0 steps of the start; Infinity when the ball stops growing without b
RECURSIVE DistanceFrom(_, _, _, _)
DistanceFrom(adjList, ball, b, k0) ==
  IF b \in ball THEN k0
  ELSE LET next == ball \cup UNION { Neighbors(adjList, v) : v \in ball }
       IN IF next = ball THEN Infinity
          ELSE DistanceFrom(adjList, next, b, k0 + 1)

\* the distance between two ids along the entries of an adjacency map
Distance(adjList, a, b) == DistanceFrom(adjList, { a }, b, 0)

\* C29: in girvan-newman mode on a graph of n >= 1 nodes the call returns,
\* and every node that is no seed gets the 0-based index of the first seed,
\* in seed order, among those at the least distance from it (the first seed
\* of all when no seed can be reached)
C29_NearestSeedCommunity ==
  (call.fn = "detectCommunities" /\ call.args = << "girvan-newman" >>
   /\ Len(nodes) >= 1)
  => /\ ~call.threw
     /\ DOMAIN call.result = NodeIds(nodes)
     /\ LET seeds == SeedsOf(nodes)
            adjList == buildAdjacencyList(nodes, links)
            isSeed(id) == \E k \in DOMAIN seeds : seeds[k] = id
        IN \A id \in NodeIds(nodes) :
             ~isSeed(id)
             => LET least == SetMin({ Distance(adjList, id, seeds[k]) : k \in DOMAIN seeds })
                    first == CHOOSE k \in DOMAIN seeds :
                               /\ Distance(adjList, id, seeds[k]) = least
                               /\ \A j \in 1..(k - 1) :
                                    Distance(adjList, id, seeds[j]) # least
                IN call.result[id] = IndexOf(seeds, seeds[first])

\* girvan-newman was called on the graph of five nodes: cc, as near to the
\* seed b as to the seed Dd, is with b, and e, which reaches no seed, is with
\* the first seed
C29_Witness ==
  /\ call.fn = "detectCommunities" /\ call.args = << "girvan-newman" >>
  /\ ~call.threw
  /\ Len(nodes) = 5
  /\ SeedsOf(nodes) = << "a", "b", "Dd" >>
  /\ call.result["cc"] = 1 /\ call.result["e"] = 0

\* the character code of the lower-cased first character of the ids of the
\* raw graphs: a 97, b 98, c 99, d 100, e 101, m 109, n 110
LowerFirstCode(id) ==
  IF id = "a" THEN 97
  ELSE IF id = "b" THEN 98
  ELSE IF id = "cc" THEN 99
  ELSE IF id = "Dd" THEN 100
  ELSE IF id = "e" THEN 101
  ELSE IF id \in ManyIds THEN 109
  ELSE 110

\* C30: in louvain mode the community of a node is min(9, floor(degree / 2)),
\* degree being the number of distinct ids joined to the node by a link; in a
\* mode that is neither louvain nor girvan-newman it is the character code of
\* the lower-cased first character of the id, modulo 10
C30_DegreeAndFirstCharCommunities ==
  (call.fn = "detectCommunities" /\ call.args # << "girvan-newman" >>)
  => /\ ~call.threw
     /\ DOMAIN call.result = NodeIds(nodes)
     /\ \A id \in NodeIds(nodes) :
          IF call.args = << "louvain" >>
          THEN LET degree == Cardinality(Adjacent(links, { id }))
               IN call.result[id] = IF degree \div 2 > 9 THEN 9 ELSE degree \div 2
          ELSE call.result[id] = LowerFirstCode(id) % 10

\* louvain was called on the star: the centre, with more than 19 neighbours,
\* is in community 9 and a leaf in community 0
C30_Witness ==
  /\ call.fn = "detectCommunities" /\ call.args = << "louvain" >>
  /\ Cardinality(Adjacent(links, { "a" })) > 19
  /\ call.result["a"] = 9
  /\ \E id \in LeafIds : id \in DOMAIN call.result /\ call.result[id] = 0

\* C31: a raw node whose id is not among the previous nodes is built with no
\* x, y, no fx, fy, not selected, not highlighted, the default colour and
\* velocity 0; after a reload a node that was not among the nodes before it
\* (whatever it was before an earlier reload removed it) is not selected, not
\* pinned and has no position
C31_UnknownNodeIsFresh ==
  /\ [][ \A g \in FilterGraphs, oldVelocity \in { Undefined, 1 } :
           CallTransformGraphData(g, oldVelocity)
           => \A i \in DOMAIN call'.result.nodes :
                LET n == call'.result.nodes[i]
                IN n.id \notin NodeIds(nodes)
                   => /\ n.x = Undefined /\ n.y = Undefined
                      /\ n.fx = Undefined /\ n.fy = Undefined
                      /\ ~n.isSelected /\ ~n.isHighlighted
                      /\ n.color = DefaultColor
                      /\ call'.result.vx[i] = 0 ]_vars
  /\ [][ \A g \in FilterGraphs :
           Reload(g)
           => \A j \in DOMAIN nodes' :
                nodes'[j].id \notin NodeIds(nodes)
                => /\ ~nodes'[j].isSelected /\ ~nodes'[j].isHighlighted
                   /\ nodes'[j].x = Undefined /\ nodes'[j].y = Undefined
                   /\ nodes'[j].fx = Undefined /\ nodes'[j].fy = Undefined ]_vars

\* cc was the node of a neighbourhood click (it is still the anchor), a
\* reload removed it and a later reload has brought it back: it has no
\* position, while a node that stayed is selected and pinned
C31_Witness ==
  /\ lastOp.kind = "reload" /\ graph = 1
  /\ neighborhoodSelection.sourceNodeId = "cc"
  /\ neighborhoodSelection.currentDepth >= 1
  /\ \E j \in DOMAIN nodes :
       /\ nodes[j].id = "cc" /\ nodes[j].x = Undefined /\ ~nodes[j].isSelected
  /\ \E j \in DOMAIN nodes :
       /\ nodes[j].id # "cc" /\ nodes[j].isSelected /\ IsPinned(nodes[j])

\* C32: an interaction that changes the set of selected nodes leaves the
\* timer of the simulation running; a neighbourhood click, an exact-layer
\* click and a highlight that found a path set alpha to at most 0.2, a
\* background shift+click sets it to at least 0.3, above every one of those
C32_GentleAndMajorReheats ==
  [][ /\ (SelectedIds(nodes') # SelectedIds(nodes) /\ ~\E g \in DragGraphs : Reload(g))
         => simulationRef' = "running"
      /\ ((handleNodeClick(FALSE) /\ (isNPressed \/ isMPressed))
          \/ \E k \in 0..MaxPathLen :
               highlightPath(EdgeTypes(k)) /\ lastOp'.kind = "highlight")
         => /\ simulationRef' = "running"
            /\ alpha' > 0 /\ alpha' <= 20
      /\ svgClick(TRUE)
         => /\ simulationRef' = "running"
            /\ alpha' >= 30 /\ alpha' > 20 ]_vars

\* a background shift+click has deselected nodes: alpha is 0.5 and the timer
\* runs
C32_Witness ==
  /\ lastOp.kind = "bg" /\ lastOp.n > 0
  /\ SelectedIds(nodes) = {}
  /\ alpha = 50 /\ simulationRef = "running"

\* C33: a node that has a tooltipText is highlighted; a node gets a tooltip
\* text only in a highlight that found a path, as an end of a path edge whose
\* clause names an entity with an example, the text being that example; a
\* reset, and a highlight that found no path, leave no tooltip text
C33_TooltipOnlyWhileHighlighted ==
  /\ [](\A j \in DOMAIN nodes :
          nodes[j].tooltipText # UndefinedText => nodes[j].isHighlighted)
  /\ [][ /\ \A j \in DOMAIN nodes' :
             (/\ nodes'[j].tooltipText # UndefinedText
              /\ \A i \in DOMAIN nodes :
                    nodes[i].id = nodes'[j].id
                      => nodes[i].tooltipText # nodes'[j].tooltipText)
             => \E k \in 1..MaxPathLen, clauses \in ClauseLists,
                   entityExamples \in ExampleMaps :
                  /\ highlightPathWith(EdgeTypes(k), clauses, entityExamples)
                  /\ lastOp'.kind = "highlight"
                  /\ \E i \in DOMAIN lastOp'.path :
                       LET edge == links'[lastOp'.path[i]]
                       IN /\ HasClause(clauses, i)
                          /\ \/ /\ nodes'[j].id = edge.source
                                /\ nodes'[j].tooltipText =
                                     ExampleOf(entityExamples, clauses[i].entity1)
                             \/ /\ nodes'[j].id = edge.target
                                /\ nodes'[j].tooltipText =
                                     ExampleOf(entityExamples, clauses[i].entity2)
                          /\ HasExample(nodes'[j].tooltipText)
        /\ (\/ resetHighlighting
            \/ /\ lastOp'.kind = "nohighlight"
               /\ Len(nodes) # 0 /\ Len(links) # 0
               /\ \E k \in 1..MaxPathLen, clauses \in ClauseLists,
                     entityExamples \in ExampleMaps :
                    highlightPathWith(EdgeTypes(k), clauses, entityExamples))
           => \A j \in DOMAIN nodes' : nodes'[j].tooltipText = UndefinedText ]_vars

\* a highlight gave one end of a path edge a tooltip text and left another
\* highlighted node, whose entity has no example, without one
C33_Witness ==
  /\ lastOp.kind = "highlight"
  /\ \E j \in DOMAIN nodes :
       nodes[j].isHighlighted /\ nodes[j].tooltipText = "ex1"
  /\ \E j \in DOMAIN nodes :
       nodes[j].isHighlighted /\ nodes[j].tooltipText = UndefinedText

\* C34: the two handles of the edge relevance filter, and the range it hands
\* to the viewer, satisfy 0 <= min <= max <= 1 after any grabs, moves (on the
\* track or beside it) and releases
C34_FilterRangeOrdered ==
  /\ 0 <= edgeRelevanceFilter.minFrac
  /\ edgeRelevanceFilter.minFrac <= edgeRelevanceFilter.maxFrac
  /\ edgeRelevanceFilter.maxFrac <= 100
  /\ 0 <= edgeFilterRange[1]
  /\ edgeFilterRange[1] <= edgeFilterRange[2]
  /\ edgeFilterRange[2] <= 100

\* the max handle, grabbed while the min handle stands inside the track, was
\* moved to the left of the track and stayed at or right of the min handle
C34_Witness ==
  /\ lastOp.kind = "move" /\ lastOp.n < 0
  /\ edgeRelevanceFilter.isDragging = "max"
  /\ edgeRelevanceFilter.minFrac > 0
  /\ edgeRelevanceFilter.maxFrac < 100
  /\ edgeFilterRange = << edgeRelevanceFilter.minFrac, edgeRelevanceFilter.maxFrac >>

\* C35: when from some point on nothing but ticks happen and no drag is in
\* progress, the timer of the simulation ends and stays ended; every drag end
\* sets the energy target to 0
C35_SimulationComesToRest ==
  /\ (<>[][Tick]_vars /\ <>[](drag.phase # "active"))
       => <>[](simulationRef # "running")
  /\ [][dragended => alphaTarget' = 0]_vars

\* after a drag that pinned a node the energy target is back at 0 and the
\* timer has ended
C35_Witness ==
  /\ simulationRef = "ended" /\ alpha = 0 /\ alphaTarget = 0
  /\ drag.phase # "active"
  /\ \E j \in DOMAIN nodes : IsNumber(nodes[j].fx)

\* C36: in every reachable state, after a reload too, every node with
\* isHighlighted is an end of at least one link with isHighlighted
C36_HighlightedNodeOnHighlightedEdge ==
  \A j \in DOMAIN nodes :
    nodes[j].isHighlighted
      => \E k \in DOMAIN links :
           /\ links[k].isHighlighted
           /\ nodes[j].id \in { links[k].source, links[k].target }

\* C37: a node click takes one branch, shift before N before M: a shift+click
\* leaves the sourceNodeId of both anchors, an N click leaves
\* exactLayerSelection, an M click leaves neighborhoodSelection, and a click
\* without modifier leaves every isSelected and both anchors as they are
C37_ClickDispatch ==
  [][ /\ handleNodeClick(TRUE)
         => /\ lastOp'.kind = "shift"
            /\ neighborhoodSelection'.sourceNodeId = neighborhoodSelection.sourceNodeId
            /\ exactLayerSelection'.sourceNodeId = exactLayerSelection.sourceNodeId
            /\ exactLayerSelection' = exactLayerSelection
      /\ (handleNodeClick(FALSE) /\ isNPressed)
         => /\ lastOp'.kind = "nbr"
            /\ neighborhoodSelection'.sourceNodeId = drag.node
            /\ exactLayerSelection' = exactLayerSelection
      /\ (handleNodeClick(FALSE) /\ ~isNPressed /\ isMPressed)
         => /\ lastOp'.kind = "layer"
            /\ exactLayerSelection'.sourceNodeId = drag.node
            /\ neighborhoodSelection' = neighborhoodSelection
      /\ (handleNodeClick(FALSE) /\ ~isNPressed /\ ~isMPressed)
         => /\ lastOp'.kind = "plain"
            /\ UNCHANGED anchors
            /\ SelectedIds(nodes') = SelectedIds(nodes) ]_vars

\* an M click on a node while the neighbourhood anchor, set by an earlier N
\* click, is another node
C37_Witness ==
  /\ lastOp.kind = "layer"
  /\ isMPressed /\ ~isNPressed
  /\ neighborhoodSelection.sourceNodeId # NullId
  /\ neighborhoodSelection.sourceNodeId # lastOp.node
  /\ neighborhoodSelection.currentDepth >= 1
  /\ exactLayerSelection.sourceNodeId = lastOp.node

\* C38: a shift+click on a node deselects and unpins that node and leaves its
\* isHighlighted and color; every other node keeps isSelected, fx, fy,
\* isHighlighted and color
C38_ShiftClickTouchesOnlyClicked ==
  [][ handleNodeClick(TRUE)
        => /\ DOMAIN nodes' = DOMAIN nodes
           /\ \A j \in DOMAIN nodes :
                /\ nodes'[j].id = nodes[j].id
                /\ nodes'[j].isHighlighted = nodes[j].isHighlighted
                /\ nodes'[j].color = nodes[j].color
                /\ IF nodes[j].id = drag.node
                   THEN /\ ~nodes'[j].isSelected
                        /\ nodes'[j].fx = Null /\ nodes'[j].fy = Null
                   ELSE /\ nodes'[j].isSelected = nodes[j].isSelected
                        /\ nodes'[j].fx = nodes[j].fx
                        /\ nodes'[j].fy = nodes[j].fy ]_vars

\* a shift+click has deselected a highlighted node, which is still
\* highlighted, while another node is still selected and pinned
C38_Witness ==
  /\ lastOp.kind = "shift"
  /\ \E j \in DOMAIN nodes :
       /\ nodes[j].id = lastOp.node
       /\ nodes[j].isHighlighted /\ ~nodes[j].isSelected /\ nodes[j].fx = Null
  /\ \E j \in DOMAIN nodes :
       /\ nodes[j].id # lastOp.node
       /\ nodes[j].isSelected /\ IsNumber(nodes[j].fx)

\* C39: for the adjacency map of the graph and two different nodes a and b,
\* getShortestPathDistance(a, b) is k exactly when b is in the depth-k set
\* of findNodesAtDepths(a, m) for every m >= k, it is Infinity exactly when b
\* is in no depth set, and getShortestPathDistance(b, a) gives the same number
C39_TwoSearchesAgree ==
  (/\ call.fn = "getShortestPathDistance"
   /\ call.args[1] # call.args[2]
   /\ { call.args[1], call.args[2] } \subseteq NodeIds(nodes))
  => LET a == call.args[1]
         b == call.args[2]
         adjList == buildAdjacencyList(nodes, links)
     IN /\ \A m \in 1..MaxLayer :
             \A k \in 1..m :
               (b \in findNodesAtDepths(a, m, adjList)[k]) <=> (call.result = k)
        /\ (call.result = Infinity)
             <=> \A m \in 1..MaxLayer :
                   \A k \in 0..m : b \notin findNodesAtDepths(a, m, adjList)[k]
        /\ call.result \in (1..MaxLayer) \cup { Infinity }
        /\ getShortestPathDistance(b, a, adjList) = call.result

\* a distance of 3: the far end is in the depth-3 set and in no nearer one
C39_Witness ==
  /\ call.fn = "getShortestPathDistance"
  /\ call.result = 3
  /\ call.args[2] \in findNodesAtDepths(call.args[1], 3,
                                        buildAdjacencyList(nodes, links))[3]

=============================================================================
